---- MODULE Spec2Model ----
\* A model of the daylog segment-and-event pipeline (ximonse/audio_log):
\* the interval merge of the VAD cascade, the transcript chunk clustering,
\* the event log assembler, the recording identifier and the output
\* validator.  Sample positions are integers; times are integers in ticks
\* of 0.1 ms, so that rounding to 3 decimals is a real conversion.
EXTENDS Integers, Sequences, FiniteSets

VARIABLES
    pc,             \* position of the modelled call: "call", "done", ...
    regions,        \* _merge_close_regions: argument regions, <<start, end>> in samples
    sample_rate,    \* _merge_close_regions: argument sample_rate (samples per second)
    gap_s,          \* _merge_close_regions: argument gap_s, in tenths of a second
    merged,         \* _merge_close_regions: the returned list
    merged_again,   \* _merge_close_regions applied to `merged`
    chunks,         \* merge_transcript_chunks: argument chunks
    min_gap_s,      \* merge_transcript_chunks: argument min_gap_s, in ticks
    blocks,         \* merge_transcript_chunks: the returned list
    split_at,       \* regrouping: the position the chunk list is split at
    regrouped,      \* regrouping: the blocks of the two parts, clustered again
    recording_id,   \* build_events / process_recording: recording_id
    run_id,         \* build_events / process_recording: run_id
    start_time,     \* build_events: start_time (process_recording: start_dt), ticks or None
    vad_segments,   \* build_events / process_recording: vad_segments
    transcript_chunks,  \* build_events / process_recording: transcript_chunks
    events,         \* build_events: the returned event list
    processed_dir,  \* validate_processed_dir: the directory it is given
    errors,         \* validate_processed_dir: the returned list of violations
    raised,         \* validate_processed_dir: an exception left the call
    originals,      \* output root: recording_dir -> content of its original copy
    processed,      \* output root: recording_dir -> the artifacts last written there
    runs,           \* the process_recording calls made so far, oldest first
    invoked,        \* the stage functions the last process_recording call invoked
    progress,       \* the (stage, percent) reports of the last process_recording call
    asr_outcome,    \* how ASR went in the last call, None when it was not invoked
    asr_chunks,     \* the chunks stage 3 of the last call left, before merging
    batch,          \* run_pipeline: its arguments, the files left and its outcome
    split,          \* _split_large_segments: its arguments and what it returned
    vad,            \* run_vad: the audio, the configuration and the stages' results
    queue_items,    \* FileQueue.items: id, status and progress (percent) of each item
    add_count,      \* the number of queue.add calls made: the next fresh id
    running,        \* BatchProcessor.running
    paused,         \* BatchProcessor.paused
    current_item_id,\* BatchProcessor._current_item_id
    threads,        \* the threads start() created: their position in _process_loop
    calls,          \* the _process_item calls: item, done flag and monitor thread
    start_btn,      \* the Start button is enabled
    pause_btn,      \* the Pause button is enabled
    ui_posted,      \* a progress callback waits in the Tk event queue
    picked,         \* history: the ids get_next_pending handed to _process_item
    disturbed       \* history: pause, resume or cancel has been used

varsMerge == <<regions, sample_rate, gap_s, merged, merged_again>>

varsCluster == <<chunks, min_gap_s, blocks, split_at, regrouped>>

varsEvents == <<recording_id, run_id, start_time, vad_segments, transcript_chunks, events>>

varsValidate == <<processed_dir, errors, raised>>

varsPipeline == <<originals, processed, runs, invoked, progress, asr_outcome, asr_chunks, batch>>
varsSplit == <<split>>
varsVad == <<vad>>
varsGui == <<queue_items, add_count, running, paused, current_item_id, threads, calls,
             start_btn, pause_btn, ui_posted, picked, disturbed>>

vars == <<pc, varsMerge, varsCluster, varsEvents, varsValidate, varsPipeline, varsSplit, varsVad, varsGui>>

\* Optional values: Python's None, and a value that is present.
None == <<>>

Some(x) == <<x>>

\* ---------------------------------------------------------------------
\* Generic helpers
\* ---------------------------------------------------------------------

Max(a, b) == IF a >= b THEN a ELSE b

Min(a, b) == IF a <= b THEN a ELSE b

\* All sequences over S of length 0..n.
SeqsUpTo(S, n) == UNION {[1..k -> S] : k \in 0..n}

\* The permutations of the sequence s, as index bijections applied to s.
PermutationsOf(s) ==
    {[i \in 1..Len(s) |-> s[p[i]]] :
        p \in {q \in [1..Len(s) -> 1..Len(s)] :
                 \A i, j \in 1..Len(s) : i # j => q[i] # q[j]}}

\* ---------------------------------------------------------------------
\* vad.py: _merge_close_regions
\* ---------------------------------------------------------------------

\* Bounds of the inputs explored for _merge_close_regions.
MaxSample == 4
MaxRegions == 3
MaxGapS == 1

\* Tenths of a second per second: gap_s is carried in tenths of a second.
TenthsPerSecond == 10

\* A region is <<start, end>> with start < end (a non-empty run of blocks).
Regions == {r \in (0..MaxSample) \X (0..MaxSample) : r[1] < r[2]}

\* The two inputs of tests/unit/test_vad_merge.py, in samples at 10 Hz,
\* so that 0.1 s is one sample and gap_s = 0.5 is 5 samples.
TestGapInput == <<(<<0, 10>>), (<<14, 20>>), (<<30, 35>>)>>
TestNoMergeInput == <<(<<0, 10>>), (<<17, 20>>)>>

\* The sample rate explored: 16 Hz, where int(gap_s * sample_rate) truncates
\* (the test inputs are at 10 Hz).
SampleRates == {16}

\* gap_samples = int(gap_s * sample_rate)
GapSamples(rate, gap) == (gap * rate) \div TenthsPerSecond

\* The for loop of _merge_close_regions from index i on, acc being `merged`.
RECURSIVE MergeLoop(_, _, _, _)
MergeLoop(rs, i, gap_samples, acc) ==
    IF i > Len(rs) THEN acc
    ELSE LET start == rs[i][1]
             end == rs[i][2]
             last == acc[Len(acc)]
         IN IF start - last[2] <= gap_samples
            THEN MergeLoop(rs, i + 1, gap_samples,
                           [acc EXCEPT ![Len(acc)] = <<last[1], Max(last[2], end)>>])
            ELSE MergeLoop(rs, i + 1, gap_samples, Append(acc, <<start, end>>))

\* Mutant: the comparison is strict, so a gap equal to the threshold splits.
RECURSIVE MergeLoopStrict(_, _, _, _)
MergeLoopStrict(rs, i, gap_samples, acc) ==
    IF i > Len(rs) THEN acc
    ELSE LET start == rs[i][1]
             end == rs[i][2]
             last == acc[Len(acc)]
         IN IF start - last[2] < gap_samples
            THEN MergeLoopStrict(rs, i + 1, gap_samples,
                           [acc EXCEPT ![Len(acc)] = <<last[1], Max(last[2], end)>>])
            ELSE MergeLoopStrict(rs, i + 1, gap_samples, Append(acc, <<start, end>>))

MergeCloseRegionsStrict(rs, rate, gap) ==
    IF rs = <<>> THEN <<>>
    ELSE MergeLoopStrict(rs, 2, GapSamples(rate, gap), <<rs[1]>>)

\* Mutant: the gap is measured from the end of the previous input region,
\* not from the end of the accumulated region.
RECURSIVE MergeLoopPrevEnd(_, _, _, _)
MergeLoopPrevEnd(rs, i, gap_samples, acc) ==
    IF i > Len(rs) THEN acc
    ELSE LET start == rs[i][1]
             end == rs[i][2]
             last == acc[Len(acc)]
         IN IF start - rs[i - 1][2] <= gap_samples
            THEN MergeLoopPrevEnd(rs, i + 1, gap_samples,
                           [acc EXCEPT ![Len(acc)] = <<last[1], Max(last[2], end)>>])
            ELSE MergeLoopPrevEnd(rs, i + 1, gap_samples, Append(acc, <<start, end>>))

MergeCloseRegionsPrevEnd(rs, rate, gap) ==
    IF rs = <<>> THEN <<>>
    ELSE MergeLoopPrevEnd(rs, 2, GapSamples(rate, gap), <<rs[1]>>)

\* Mutant: the gap is measured from the start of the accumulated region
\* (index 0 instead of index 1).
RECURSIVE MergeLoopFromStart(_, _, _, _)
MergeLoopFromStart(rs, i, gap_samples, acc) ==
    IF i > Len(rs) THEN acc
    ELSE LET start == rs[i][1]
             end == rs[i][2]
             last == acc[Len(acc)]
         IN IF start - last[1] <= gap_samples
            THEN MergeLoopFromStart(rs, i + 1, gap_samples,
                           [acc EXCEPT ![Len(acc)] = <<last[1], Max(last[2], end)>>])
            ELSE MergeLoopFromStart(rs, i + 1, gap_samples, Append(acc, <<start, end>>))

MergeCloseRegionsFromStart(rs, rate, gap) ==
    IF rs = <<>> THEN <<>>
    ELSE MergeLoopFromStart(rs, 2, GapSamples(rate, gap), <<rs[1]>>)

\* _merge_close_regions(regions, sample_rate, gap_s)
MergeCloseRegions(rs, rate, gap) ==
    IF rs = <<>> THEN <<>>
    ELSE MergeLoop(rs, 2, GapSamples(rate, gap), <<rs[1]>>)

\* The inputs explored: every list of at most MaxRegions regions with every
\* threshold of 0..MaxGapS tenths of a second, and the two test inputs
\* (gap_s = 0.5 at 10 Hz).
MergeInputs ==
    {<<rs, rate, g>> : rs \in SeqsUpTo(Regions, MaxRegions),
                       rate \in SampleRates, g \in 0..MaxGapS}
    \cup {<<TestGapInput, 10, 5>>, <<TestNoMergeInput, 10, 5>>}

\* No call of _merge_close_regions is in progress.
IdleMerge ==
    /\ regions = <<>>
    /\ sample_rate = 0
    /\ gap_s = 0
    /\ merged = <<>>
    /\ merged_again = <<>>

\* No call of merge_transcript_chunks is in progress.
IdleCluster ==
    /\ chunks = <<>>
    /\ min_gap_s = 0
    /\ blocks = <<>>
    /\ split_at = 0
    /\ regrouped = <<>>

\* No call of build_events is in progress.
IdleEvents ==
    /\ recording_id = None
    /\ run_id = None
    /\ start_time = None
    /\ vad_segments = <<>>
    /\ transcript_chunks = <<>>
    /\ events = <<>>

\* No call of validate_processed_dir is in progress.
IdleValidate ==
    /\ processed_dir = None
    /\ errors = <<>>
    /\ raised = FALSE

\* No run_pipeline call is in progress.
NoBatch ==
    [state |-> "none", input |-> <<>>, files |-> <<>>, outputs |-> <<>>,
     date_override |-> None, start_time |-> None, use_mtime |-> FALSE]

\* _split_large_segments has not been called.
NoSplit == [segments |-> <<>>, max_duration_s |-> 0, done |-> FALSE, result |-> <<>>]

IdleSplit == split = NoSplit

\* run_vad has not been called.
NoVad ==
    [state |-> "none", loud |-> <<>>, speech_like |-> <<>>, min_speech_s |-> 0,
     energy_regions |-> <<>>, spectral_regions |-> <<>>, speech_regions |-> <<>>,
     handed |-> <<>>, all_segments |-> <<>>]

IdleVad == vad = NoVad

\* The threads start() can create in the runs explored.
MaxThreads == 2

\* DaylogGUI.__init__ / BatchProcessor.__init__ / FileQueue(): an empty
\* queue, no thread, Start enabled and Pause disabled.
IdleGui ==
    /\ queue_items = <<>>
    /\ add_count = 0
    /\ running = FALSE
    /\ paused = FALSE
    /\ current_item_id = None
    /\ threads = [t \in 1..MaxThreads |-> [pc |-> "unborn", call |-> 0]]
    /\ calls = <<>>
    /\ start_btn = TRUE
    /\ pause_btn = FALSE
    /\ ui_posted = FALSE
    /\ picked = <<>>
    /\ disturbed = FALSE

\* The output root is empty and process_recording has not been called.
IdlePipeline ==
    /\ originals = <<>>
    /\ processed = <<>>
    /\ runs = <<>>
    /\ invoked = <<>>
    /\ progress = <<>>
    /\ asr_outcome = None
    /\ asr_chunks = <<>>
    /\ batch = NoBatch

InitMerge ==
    /\ pc = "call"
    /\ \E in \in MergeInputs :
         /\ regions = in[1]
         /\ sample_rate = in[2]
         /\ gap_s = in[3]
    /\ merged = <<>>
    /\ merged_again = <<>>
    /\ IdleCluster
    /\ IdleEvents
    /\ IdleValidate
    /\ IdlePipeline
    /\ IdleSplit
    /\ IdleVad
    /\ IdleGui

\* One call of _merge_close_regions on the chosen arguments.
CallMergeCloseRegions ==
    /\ pc = "call"
    /\ merged' = MergeCloseRegions(regions, sample_rate, gap_s)
    /\ pc' = "done"
    /\ UNCHANGED <<regions, sample_rate, gap_s, merged_again, varsCluster, varsEvents, varsValidate, varsSplit, varsVad, varsGui, varsPipeline>>

\* A second call, on the list the first call returned.
CallMergeCloseRegionsAgain ==
    /\ pc = "done"
    /\ merged_again' = MergeCloseRegions(merged, sample_rate, gap_s)
    /\ pc' = "again"
    /\ UNCHANGED <<regions, sample_rate, gap_s, merged, varsCluster, varsEvents, varsValidate, varsSplit, varsVad, varsGui, varsPipeline>>

NextMerge == CallMergeCloseRegions \/ CallMergeCloseRegionsAgain

SpecMerge == InitMerge /\ [][NextMerge]_vars

\* --- Claims about _merge_close_regions ---

SortedByStart(rs) == \A i \in 1..(Len(rs) - 1) : rs[i][1] <= rs[i + 1][1]

\* Ascending by start and pairwise disjoint: each region ends before the next starts.
SortedDisjoint(rs) == \A i \in 1..(Len(rs) - 1) : rs[i][2] < rs[i + 1][1]

\* The largest end among rs[i..j].
MaxEnd(rs, i, j) ==
    CHOOSE m \in {rs[k][2] : k \in i..j} : \A k \in i..j : rs[k][2] <= m

\* The positions of a t0-sorted list where a new output interval starts: the
\* first, and each whose start is more than the threshold after every end so far.
Breaks(rs, g) == {i \in 1..Len(rs) : i = 1 \/ rs[i][1] - MaxEnd(rs, 1, i - 1) > g}

\* The output interval opened at break b: from its start to the largest end
\* of the regions up to the next break.
GroupOf(rs, g, b) ==
    LET later == {c \in Breaks(rs, g) : c > b}
        stop == IF later = {} THEN Len(rs)
                ELSE (CHOOSE c \in later : \A d \in later : c <= d) - 1
    IN <<rs[b][1], MaxEnd(rs, b, stop)>>

\* C1: on a t0-sorted list _merge_close_regions joins an interval to the
\* accumulated one exactly when its start is at most the threshold after the
\* accumulated end, keeping the larger end, and opens a new interval when the
\* gap is strictly greater; the two test inputs give the tested outputs.
C1_MergeByGap ==
    (pc = "done" /\ SortedByStart(regions)) =>
        LET g == GapSamples(sample_rate, gap_s)
            bs == Breaks(regions, g)
        IN /\ Len(merged) = Cardinality(bs)
           /\ \A b \in bs :
                 merged[Cardinality({c \in bs : c <= b})] = GroupOf(regions, g, b)
           /\ (regions = TestGapInput /\ g = 5) =>
                 merged = <<(<<0, 20>>), (<<30, 35>>)>>
           /\ (regions = TestNoMergeInput /\ g = 5) => merged = regions

C1_Witness ==
    /\ pc = "done"
    /\ regions = TestGapInput
    /\ GapSamples(sample_rate, gap_s) = 5
    /\ Len(merged) = 2

\* C2: merging the output of _merge_close_regions again with the same
\* threshold returns exactly that output, for every input list.
C2_Idempotent == pc = "again" => merged_again = merged

C2_Witness ==
    /\ pc = "again"
    /\ Len(regions) = 3
    /\ Len(merged) = 2
    /\ ~SortedByStart(regions)

\* C3 as stated: for every input, sorted or not, the output is sorted,
\* disjoint and the same for every permutation of the input.
C3_AnyOrder ==
    pc = "done" =>
        /\ SortedDisjoint(merged)
        /\ \A p \in PermutationsOf(regions) :
              MergeCloseRegions(p, sample_rate, gap_s) = merged

\* C3 amended: for every input, sorted or not, the output is sorted and
\* disjoint; it is the same for every t0-sorted arrangement of a t0-sorted
\* input (the function does not sort, so other orders may give other outputs).
C3_SortedDisjoint ==
    pc = "done" =>
        /\ SortedDisjoint(merged)
        /\ SortedByStart(regions) =>
              \A p \in PermutationsOf(regions) :
                  SortedByStart(p) => MergeCloseRegions(p, sample_rate, gap_s) = merged

C3_Witness ==
    /\ pc = "done"
    /\ ~SortedByStart(regions)
    /\ Len(merged) = 2

\* ---------------------------------------------------------------------
\* merge.py: merge_transcript_chunks
\* ---------------------------------------------------------------------

\* Bounds of the inputs explored for merge_transcript_chunks.
MaxChunkT == 3
MaxChunks == 3
MaxMinGap == 2

\* A TranscriptChunk (asr.py).  text is the sequence of its words, so that
\* " ".join of texts is concatenation and an empty text is <<>>.
TranscriptChunk(t0, t1, text, error) ==
    [t0 |-> t0, t1 |-> t1, text |-> text, asr_confidence |-> None, error |-> error]

\* sorted(chunks, key=lambda c: c.t0): Python's sort is stable, so a chunk
\* goes after every chunk already placed whose t0 is not larger.
InsertByT0(sorted, c) ==
    LET k == Cardinality({i \in 1..Len(sorted) : sorted[i].t0 <= c.t0})
    IN SubSeq(sorted, 1, k) \o <<c>> \o SubSeq(sorted, k + 1, Len(sorted))

RECURSIVE SortedByT0(_)
SortedByT0(cs) ==
    IF cs = <<>> THEN <<>>
    ELSE InsertByT0(SortedByT0(SubSeq(cs, 1, Len(cs) - 1)), cs[Len(cs)])

\* The open accumulator started at chunk c.  `constituents` is history only:
\* the <<t0, t1>> of the chunks merged into the block, in order.
OpenBlock(c) ==
    [t0 |-> c.t0, t1 |-> c.t1,
     texts |-> IF c.text # <<>> THEN c.text ELSE <<>>,
     error |-> c.error,
     constituents |-> <<(<<c.t0, c.t1>>)>>]

\* The TranscriptChunk appended to `merged` when the accumulator is closed.
CloseBlock(cur) ==
    [t0 |-> cur.t0, t1 |-> cur.t1, text |-> cur.texts, asr_confidence |-> None,
     error |-> cur.error, constituents |-> cur.constituents]

\* The for loop of merge_transcript_chunks over sorted_chunks[i..], and the
\* final append of the open block.
RECURSIVE ClusterLoop(_, _, _, _, _)
ClusterLoop(sorted_chunks, i, g, acc, cur) ==
    IF i > Len(sorted_chunks) THEN Append(acc, CloseBlock(cur))
    ELSE LET chunk == sorted_chunks[i]
             gap == chunk.t0 - cur.t1
         IN IF gap < g
            THEN ClusterLoop(sorted_chunks, i + 1, g, acc,
                    [cur EXCEPT
                       !.t1 = chunk.t1,
                       !.texts = IF chunk.text # <<>> THEN @ \o chunk.text ELSE @,
                       !.error = IF chunk.error # None /\ @ = None
                                 THEN chunk.error ELSE @,
                       !.constituents = Append(@, <<chunk.t0, chunk.t1>>)])
            ELSE ClusterLoop(sorted_chunks, i + 1, g,
                             Append(acc, CloseBlock(cur)), OpenBlock(chunk))

\* Mutant: the open block is not appended after the loop.
MergeTranscriptChunksNoLast(cs, g) ==
    IF cs = <<>> THEN <<>>
    ELSE LET sorted_chunks == SortedByT0(cs)
             all == ClusterLoop(sorted_chunks, 2, g, <<>>, OpenBlock(sorted_chunks[1]))
         IN SubSeq(all, 1, Len(all) - 1)

\* Mutant: a gap equal to min_gap_s still merges (gap <= min_gap_s).
RECURSIVE ClusterLoopLe(_, _, _, _, _)
ClusterLoopLe(sorted_chunks, i, g, acc, cur) ==
    IF i > Len(sorted_chunks) THEN Append(acc, CloseBlock(cur))
    ELSE LET chunk == sorted_chunks[i]
             gap == chunk.t0 - cur.t1
         IN IF gap <= g
            THEN ClusterLoopLe(sorted_chunks, i + 1, g, acc,
                    [cur EXCEPT
                       !.t1 = chunk.t1,
                       !.texts = IF chunk.text # <<>> THEN @ \o chunk.text ELSE @,
                       !.error = IF chunk.error # None /\ @ = None
                                 THEN chunk.error ELSE @,
                       !.constituents = Append(@, <<chunk.t0, chunk.t1>>)])
            ELSE ClusterLoopLe(sorted_chunks, i + 1, g,
                               Append(acc, CloseBlock(cur)), OpenBlock(chunk))

MergeTranscriptChunksLe(cs, g) ==
    IF cs = <<>> THEN <<>>
    ELSE LET sorted_chunks == SortedByT0(cs)
         IN ClusterLoopLe(sorted_chunks, 2, g, <<>>, OpenBlock(sorted_chunks[1]))

\* Mutant: current_t1 is not advanced when a chunk is merged.
RECURSIVE ClusterLoopKeepT1(_, _, _, _, _)
ClusterLoopKeepT1(sorted_chunks, i, g, acc, cur) ==
    IF i > Len(sorted_chunks) THEN Append(acc, CloseBlock(cur))
    ELSE LET chunk == sorted_chunks[i]
             gap == chunk.t0 - cur.t1
         IN IF gap < g
            THEN ClusterLoopKeepT1(sorted_chunks, i + 1, g, acc,
                    [cur EXCEPT
                       !.texts = IF chunk.text # <<>> THEN @ \o chunk.text ELSE @,
                       !.error = IF chunk.error # None /\ @ = None
                                 THEN chunk.error ELSE @,
                       !.constituents = Append(@, <<chunk.t0, chunk.t1>>)])
            ELSE ClusterLoopKeepT1(sorted_chunks, i + 1, g,
                                   Append(acc, CloseBlock(cur)), OpenBlock(chunk))

MergeTranscriptChunksKeepT1(cs, g) ==
    IF cs = <<>> THEN <<>>
    ELSE LET sorted_chunks == SortedByT0(cs)
         IN ClusterLoopKeepT1(sorted_chunks, 2, g, <<>>, OpenBlock(sorted_chunks[1]))

\* merge_transcript_chunks(chunks, min_gap_s)
MergeTranscriptChunks(cs, g) ==
    IF cs = <<>> THEN <<>>
    ELSE LET sorted_chunks == SortedByT0(cs)
         IN ClusterLoop(sorted_chunks, 2, g, <<>>, OpenBlock(sorted_chunks[1]))

\* The chunk intervals explored: t0 < t1 on the grid 0..MaxChunkT.
ChunkIntervals == {iv \in (0..MaxChunkT) \X (0..MaxChunkT) : iv[1] < iv[2]}

\* The chunk lists explored: transcribed chunks (a one-word text, no error)
\* over every list of at most MaxChunks intervals, in any order.
ChunkLists ==
    {[i \in 1..Len(ivs) |-> TranscriptChunk(ivs[i][1], ivs[i][2], <<"w">>, None)] :
        ivs \in SeqsUpTo(ChunkIntervals, MaxChunks)}

InitCluster ==
    /\ pc = "call"
    /\ chunks \in ChunkLists
    /\ min_gap_s \in 1..MaxMinGap
    /\ blocks = <<>>
    /\ split_at = 0
    /\ regrouped = <<>>
    /\ IdleMerge
    /\ IdleEvents
    /\ IdleValidate
    /\ IdlePipeline
    /\ IdleSplit
    /\ IdleVad
    /\ IdleGui

\* One call of merge_transcript_chunks on the chosen arguments.
CallMergeTranscriptChunks ==
    /\ pc = "call"
    /\ blocks' = MergeTranscriptChunks(chunks, min_gap_s)
    /\ pc' = "done"
    /\ UNCHANGED <<chunks, min_gap_s, split_at, regrouped, varsMerge, varsEvents, varsValidate, varsSplit, varsVad, varsGui, varsPipeline>>

\* The chunk list split at position k, each part clustered on its own and
\* the concatenation of the resulting blocks clustered again.
CallRegrouped ==
    /\ pc = "done"
    /\ \E k \in 0..Len(chunks) :
         /\ split_at' = k
         /\ regrouped' =
              MergeTranscriptChunks(
                  MergeTranscriptChunks(SubSeq(chunks, 1, k), min_gap_s)
                  \o MergeTranscriptChunks(SubSeq(chunks, k + 1, Len(chunks)), min_gap_s),
                  min_gap_s)
    /\ pc' = "regrouped"
    /\ UNCHANGED <<chunks, min_gap_s, blocks, varsMerge, varsEvents, varsValidate, varsSplit, varsVad, varsGui, varsPipeline>>

NextCluster == CallMergeTranscriptChunks \/ CallRegrouped

SpecCluster == InitCluster /\ [][NextCluster]_vars

\* --- Claims about merge_transcript_chunks ---

\* The <<t0, t1>> boundaries of a list of chunks or blocks.
Boundaries(cs) == [i \in 1..Len(cs) |-> <<cs[i].t0, cs[i].t1>>]

ChunksSortedByT0(cs) == \A i \in 1..(Len(cs) - 1) : cs[i].t0 <= cs[i + 1].t0

\* The constituents of all blocks, in block order.
RECURSIVE AllConstituents(_)
AllConstituents(bs) ==
    IF bs = <<>> THEN <<>> ELSE bs[1].constituents \o AllConstituents(Tail(bs))

\* C6: an empty chunk list gives an empty list; a non-empty one gives at
\* least one block and at most one per chunk, and every block starts at the
\* t0 of some input chunk.
C6_NoFabricatedBlocks ==
    pc = "done" =>
        /\ chunks = <<>> => blocks = <<>>
        /\ chunks # <<>> =>
              /\ Len(blocks) >= 1
              /\ Len(blocks) <= Len(chunks)
              /\ \A i \in 1..Len(blocks) :
                    \E j \in 1..Len(chunks) : blocks[i].t0 = chunks[j].t0

C6_Witness ==
    /\ pc = "done"
    /\ Len(chunks) = 3
    /\ Len(blocks) = 2

\* C7: the blocks partition the t0-sorted chunks in order; consecutive
\* constituents of a block are less than min_gap_s apart (t0[i+1] - t1[i] <
\* min_gap_s), and consecutive blocks are at least min_gap_s apart, so a gap
\* of exactly min_gap_s starts a new block.
C7_StrictGap ==
    pc = "done" =>
        /\ AllConstituents(blocks) = Boundaries(SortedByT0(chunks))
        /\ \A k \in 1..Len(blocks) :
              \A i \in 1..(Len(blocks[k].constituents) - 1) :
                  blocks[k].constituents[i + 1][1] - blocks[k].constituents[i][2]
                      < min_gap_s
        /\ \A k \in 1..(Len(blocks) - 1) :
              blocks[k + 1].t0 - blocks[k].t1 >= min_gap_s

C7_Witness ==
    /\ pc = "done"
    /\ Len(blocks) = 2
    /\ Len(blocks[1].constituents) = 2
    /\ blocks[2].t0 - blocks[1].t1 = min_gap_s

\* C8: every block spans from the smallest t0 to the largest t1 of the
\* chunks merged into it.
C8_BlockSpansConstituents ==
    pc = "done" =>
        \A k \in 1..Len(blocks) :
            LET cs == blocks[k].constituents
            IN /\ \A i \in 1..Len(cs) : blocks[k].t0 <= cs[i][1] /\ cs[i][2] <= blocks[k].t1
               /\ \E i \in 1..Len(cs) : blocks[k].t0 = cs[i][1]
               /\ \E i \in 1..Len(cs) : blocks[k].t1 = cs[i][2]

\* C9: for a t0-sorted chunk list, splitting it at any position, clustering
\* each part and clustering the concatenated blocks gives the boundaries of
\* clustering the whole list (split at the end: clustering its own output).
C9_RegroupingInvariant ==
    (pc = "regrouped" /\ ChunksSortedByT0(chunks)) =>
        Boundaries(regrouped) = Boundaries(blocks)

C9_Witness ==
    /\ pc = "regrouped"
    /\ ChunksSortedByT0(chunks)
    /\ Len(chunks) = 3
    /\ split_at = 1
    /\ Len(blocks) = 2
    /\ Len(blocks[1].constituents) = 2

\* ---------------------------------------------------------------------
\* merge.py: _stable_event_id, _timestamp_chunk_id, build_events
\* ---------------------------------------------------------------------

\* Times are in ticks of 0.1 ms.
TicksPerMs == 10
TicksPerSecond == 10000

\* Bounds of the inputs explored for build_events: times are multiples of
\* 0.4 ms up to MaxEventK of them, lists have at most MaxEventItems entries.
MaxEventK == 4
MaxEventItems == 3

\* round(x, 3) and f"{x:.3f}": the nearest millisecond.  An exact half is
\* decided by the binary value of the float in Python; round-half-even is
\* used here, and the inputs explored contain no exact half.
Round3(t) ==
    LET q == t \div TicksPerMs
        r == t % TicksPerMs
    IN IF 2 * r < TicksPerMs THEN q
       ELSE IF 2 * r > TicksPerMs THEN q + 1
       ELSE IF q % 2 = 0 THEN q ELSE q + 1

\* vad.py: VadSegment(t0, t1, vad_confidence=1.0)
VadSegment(t0, t1) == [t0 |-> t0, t1 |-> t1, vad_confidence |-> 1]

\* Mutant: the namespace of the identifier also holds the number of calls made.
StableEventIdPerRun(rec, event_type, t0, t1, speaker_id) ==
    <<"uuid5", <<rec, Len(runs)>>, event_type, Round3(t0), Round3(t1),
      IF speaker_id = None THEN "" ELSE speaker_id[1]>>

\* _stable_event_id: uuid5(recording_id, "type:t0:t1:speaker"), taken as
\* injective in its namespace and basis; the basis has t0 and t1 to 3 decimals.
StableEventId(rec, event_type, t0, t1, speaker_id) ==
    <<"uuid5", rec, event_type, Round3(t0), Round3(t1),
      IF speaker_id = None THEN "" ELSE speaker_id[1]>>

\* The decimal digits of n, most significant first.
RECURSIVE Decimal(_)
Decimal(n) == IF n < 10 THEN <<n>> ELSE Append(Decimal(n \div 10), n % 10)

\* The format specification 06d: zeros on the left up to six digits.
ZeroPad6(n) ==
    LET digits == Decimal(n)
    IN IF Len(digits) >= 6 THEN digits
       ELSE [i \in 1..(6 - Len(digits)) |-> 0] \o digits

\* Mutant: the identifier is cut to the whole minute (a format without %S).
TimestampChunkIdMinute(start, t0) ==
    IF start # None THEN <<"ts", (start[1] + t0) \div (60 * TicksPerSecond)>>
    ELSE <<"chunk_", ZeroPad6(t0 \div (60 * TicksPerSecond))>>

\* _timestamp_chunk_id: the local clock time of start_time + t0 cut to the
\* whole second (strftime drops the fraction), or chunk_ and int(t0) in six
\* digits when no start time is known.
TimestampChunkId(start, t0) ==
    IF start # None THEN <<"ts", (start[1] + t0) \div TicksPerSecond>>
    ELSE <<"chunk_", ZeroPad6(t0 \div TicksPerSecond)>>

\* io/time.py: seconds_to_iso
SecondsToIso(start, offset_s) ==
    IF start = None THEN None ELSE Some(start[1] + offset_s)

\* The event build_events makes of one VAD segment.  t0 and t1 are
\* round(x, 3), kept in ticks.
SpeechEvent(rec, run, start, seg) ==
    [event_id |-> StableEventId(rec, "speech_segment", seg.t0, seg.t1, None),
     recording_id |-> rec, run_id |-> run, event_type |-> "speech_segment",
     t0 |-> Round3(seg.t0) * TicksPerMs, t1 |-> Round3(seg.t1) * TicksPerMs,
     start_iso |-> SecondsToIso(start, seg.t0), end_iso |-> SecondsToIso(start, seg.t1),
     speaker_id |-> None, text |-> None, error |-> None,
     vad_confidence |-> Some(seg.vad_confidence), asr_confidence |-> None,
     diarization_confidence |-> None,
     schema_version |-> "SCHEMA_VERSION",
     provenance |-> [pipeline_version |-> "PIPELINE_VERSION"]]

\* The event build_events makes of one transcript chunk.
ChunkEvent(rec, run, start, chunk) ==
    [event_id |-> TimestampChunkId(start, chunk.t0),
     recording_id |-> rec, run_id |-> run, event_type |-> "transcript_chunk",
     t0 |-> Round3(chunk.t0) * TicksPerMs, t1 |-> Round3(chunk.t1) * TicksPerMs,
     start_iso |-> SecondsToIso(start, chunk.t0), end_iso |-> SecondsToIso(start, chunk.t1),
     speaker_id |-> None, text |-> Some(chunk.text), error |-> chunk.error,
     vad_confidence |-> None, asr_confidence |-> chunk.asr_confidence,
     diarization_confidence |-> None,
     schema_version |-> "SCHEMA_VERSION",
     provenance |-> [pipeline_version |-> "PIPELINE_VERSION"]]

\* The order of Python strings on the two event types:
\* "speech_segment" < "transcript_chunk".
EventTypeRank(event_type) == IF event_type = "speech_segment" THEN 0 ELSE 1

\* key(a) <= key(b) for key = (item["t0"], item["event_type"]).
EventKeyLe(a, b) ==
    \/ a.t0 < b.t0
    \/ a.t0 = b.t0 /\ EventTypeRank(a.event_type) <= EventTypeRank(b.event_type)

\* list.sort is stable: an event goes after every event already placed
\* whose key is not larger.
InsertEvent(sorted, e) ==
    LET k == Cardinality({i \in 1..Len(sorted) : EventKeyLe(sorted[i], e)})
    IN SubSeq(sorted, 1, k) \o <<e>> \o SubSeq(sorted, k + 1, Len(sorted))

RECURSIVE SortEventsFrom(_, _)
SortEventsFrom(evs, n) ==
    IF n = 0 THEN <<>> ELSE InsertEvent(SortEventsFrom(evs, n - 1), evs[n])

\* Mutant: the events are returned in construction order, not sorted.
SortEventsNone(evs) == evs

\* events.sort(key=lambda item: (item["t0"], item["event_type"]))
SortEvents(evs) == SortEventsFrom(evs, Len(evs))

\* build_events(recording_id, run_id, start_time, vad_segments, transcript_chunks)
BuildEvents(rec, run, start, segs, cks) ==
    SortEvents([i \in 1..Len(segs) |-> SpeechEvent(rec, run, start, segs[i])]
               \o [i \in 1..Len(cks) |-> ChunkEvent(rec, run, start, cks[i])])

\* The times explored: multiples of 0.4 ms, so that distinct times round to
\* the same millisecond and a later time can round to an equal t0.
EventTimes == {4 * k : k \in 0..MaxEventK}

EventIntervals ==
    {iv \in EventTimes \X EventTimes : iv[2] - iv[1] \in {4, 8}}

InitEvents ==
    /\ pc = "call"
    /\ recording_id = "rec"
    /\ run_id = "run"
    /\ start_time \in {None, Some(5000)}
    /\ \E n \in 0..MaxEventItems :
          /\ vad_segments \in
               {[i \in 1..Len(ivs) |-> VadSegment(ivs[i][1], ivs[i][2])] :
                   ivs \in SeqsUpTo(EventIntervals, n)}
          /\ transcript_chunks \in
               {[i \in 1..Len(ivs) |-> TranscriptChunk(ivs[i][1], ivs[i][2], <<"w">>, None)] :
                   ivs \in SeqsUpTo(EventIntervals, MaxEventItems - n)}
    /\ events = <<>>
    /\ IdleMerge
    /\ IdleCluster
    /\ IdleValidate
    /\ IdlePipeline
    /\ IdleSplit
    /\ IdleVad
    /\ IdleGui

\* One call of build_events on the chosen arguments.
CallBuildEvents ==
    /\ pc = "call"
    /\ events' = BuildEvents(recording_id, run_id, start_time, vad_segments,
                             transcript_chunks)
    /\ pc' = "done"
    /\ UNCHANGED <<recording_id, run_id, start_time, vad_segments, transcript_chunks,
                   varsMerge, varsCluster, varsValidate, varsSplit, varsVad, varsGui, varsPipeline>>

NextEvents == CallBuildEvents

SpecEvents == InitEvents /\ [][NextEvents]_vars

\* --- Claims about build_events ---

\* C4: the event log returned by build_events holds one event per input
\* segment and chunk, is ascending by t0, and among events of equal t0 no
\* transcript_chunk event comes before a speech_segment event.
C4_EventLogSorted ==
    pc = "done" =>
        /\ Len(events) = Len(vad_segments) + Len(transcript_chunks)
        /\ \A i \in 1..(Len(events) - 1) : events[i].t0 <= events[i + 1].t0
        /\ \A i, j \in 1..Len(events) :
              (i < j /\ events[i].t0 = events[j].t0) =>
                  ~(events[i].event_type = "transcript_chunk"
                    /\ events[j].event_type = "speech_segment")

\* Two segments given out of order of their rounded t0, and a chunk that
\* ties on the rounded t0 with a segment and is placed right after it.
C4_Witness ==
    /\ pc = "done"
    /\ Len(vad_segments) = 2
    /\ Round3(vad_segments[1].t0) > Round3(vad_segments[2].t0)
    /\ Len(transcript_chunks) = 1
    /\ \E i \in 1..(Len(events) - 1) :
          /\ events[i].t0 = events[i + 1].t0
          /\ events[i].event_type = "speech_segment"
          /\ events[i + 1].event_type = "transcript_chunk"
    /\ transcript_chunks[1].t0 < vad_segments[1].t0

\* ---------------------------------------------------------------------
\* io/validate.py: validate_processed_dir
\* ---------------------------------------------------------------------

\* Bound: the number of lines of events.jsonl explored.
MaxLines == 3

\* The required artifacts, in the order they are checked.
Required ==
    <<"recording.json", "segments.json", "transcript.json", "transcript.txt",
      "events.jsonl", "events.csv">>

\* A line of events.jsonl: text json.loads rejects, JSON that is not an
\* object, or an object with "t0" and "t1" present or absent (null).
InvalidLine == [kind |-> "invalid", t0 |-> None, t1 |-> None]

NotObjectLine == [kind |-> "not_object", t0 |-> None, t1 |-> None]

ObjectLine(t0, t1) == [kind |-> "object", t0 |-> t0, t1 |-> t1]

\* Mutant: last_t0 is not advanced, every t0 is compared with the initial -1.0.
RECURSIVE ValidateLinesKeepLast(_, _, _, _)
ValidateLinesKeepLast(lines, i, duration_s, st) ==
    IF i > Len(lines) THEN st
    ELSE LET line == lines[i]
         IN IF line.kind = "invalid"
            THEN [st EXCEPT !.errors = Append(@, "events.jsonl has invalid JSON")]
            ELSE IF line.kind = "not_object"
            THEN [st EXCEPT !.raised = TRUE]
            ELSE IF line.t0 = None \/ line.t1 = None
            THEN ValidateLinesKeepLast(lines, i + 1, duration_s,
                    [st EXCEPT !.errors = Append(@, "events.jsonl missing t0/t1")])
            ELSE LET t0 == line.t0[1]
                     t1 == line.t1[1]
                     e1 == IF t0 < st.last_t0
                           THEN Append(st.errors, "events.jsonl not monotonic")
                           ELSE st.errors
                     e2 == IF duration_s # None /\ t1 > duration_s[1] + TicksPerSecond
                           THEN Append(e1, "events.jsonl exceeds duration")
                           ELSE e1
                 IN ValidateLinesKeepLast(lines, i + 1, duration_s,
                        [st EXCEPT !.errors = e2])

\* Mutant: a t1 equal to duration + 1.0 is reported too (>= for >).
RECURSIVE ValidateLinesGe(_, _, _, _)
ValidateLinesGe(lines, i, duration_s, st) ==
    IF i > Len(lines) THEN st
    ELSE LET line == lines[i]
         IN IF line.kind = "invalid"
            THEN [st EXCEPT !.errors = Append(@, "events.jsonl has invalid JSON")]
            ELSE IF line.kind = "not_object"
            THEN [st EXCEPT !.raised = TRUE]
            ELSE IF line.t0 = None \/ line.t1 = None
            THEN ValidateLinesGe(lines, i + 1, duration_s,
                    [st EXCEPT !.errors = Append(@, "events.jsonl missing t0/t1")])
            ELSE LET t0 == line.t0[1]
                     t1 == line.t1[1]
                     e1 == IF t0 < st.last_t0
                           THEN Append(st.errors, "events.jsonl not monotonic")
                           ELSE st.errors
                     e2 == IF duration_s # None /\ t1 >= duration_s[1] + TicksPerSecond
                           THEN Append(e1, "events.jsonl exceeds duration")
                           ELSE e1
                 IN ValidateLinesGe(lines, i + 1, duration_s,
                        [st EXCEPT !.errors = e2, !.last_t0 = t0])

\* The for loop over the lines of events.jsonl from line i on.  st holds
\* errors, last_t0 and whether an exception was raised (event.get on a value
\* that is not a dict).
RECURSIVE ValidateLines(_, _, _, _)
ValidateLines(lines, i, duration_s, st) ==
    IF i > Len(lines) THEN st
    ELSE LET line == lines[i]
         IN IF line.kind = "invalid"
            THEN [st EXCEPT !.errors = Append(@, "events.jsonl has invalid JSON")]
            ELSE IF line.kind = "not_object"
            THEN [st EXCEPT !.raised = TRUE]
            ELSE IF line.t0 = None \/ line.t1 = None
            THEN ValidateLines(lines, i + 1, duration_s,
                    [st EXCEPT !.errors = Append(@, "events.jsonl missing t0/t1")])
            ELSE LET t0 == line.t0[1]
                     t1 == line.t1[1]
                     e1 == IF t0 < st.last_t0
                           THEN Append(st.errors, "events.jsonl not monotonic")
                           ELSE st.errors
                     e2 == IF duration_s # None /\ t1 > duration_s[1] + TicksPerSecond
                           THEN Append(e1, "events.jsonl exceeds duration")
                           ELSE e1
                 IN ValidateLines(lines, i + 1, duration_s,
                        [st EXCEPT !.errors = e2, !.last_t0 = t0])

\* The "missing <name>" errors for Required[i..].
RECURSIVE MissingErrors(_, _)
MissingErrors(dir, i) ==
    IF i > Len(Required) THEN <<>>
    ELSE (IF Required[i] \in dir.files THEN <<>> ELSE <<"missing " \o Required[i]>>)
         \o MissingErrors(dir, i + 1)

\* validate_processed_dir(processed_dir): the list returned, or raised = TRUE
\* when an exception leaves the call (json.loads of recording.json is not
\* guarded).
ValidateProcessedDir(dir) ==
    LET missing == MissingErrors(dir, 1)
        has_recording == "recording.json" \in dir.files
    IN IF has_recording /\ dir.recording_json.kind = "invalid"
       THEN [errors |-> <<>>, raised |-> TRUE]
       ELSE LET duration_s == IF has_recording THEN dir.recording_json.duration_s
                              ELSE None
                st == IF "events.jsonl" \in dir.files
                      THEN ValidateLines(dir.events_jsonl, 1, duration_s,
                              [errors |-> missing, last_t0 |-> -TicksPerSecond,
                               raised |-> FALSE])
                      ELSE [errors |-> missing, last_t0 |-> -TicksPerSecond,
                            raised |-> FALSE]
            IN IF st.raised THEN [errors |-> <<>>, raised |-> TRUE]
               ELSE [errors |-> st.errors, raised |-> FALSE]

\* The directories explored.  The probed duration, when recorded, is 1 s;
\* t0 is absent, 0 s, 1 s or 2 s; t1 is absent, exactly duration + 1.0 s, or
\* one tick more.
ValDuration == TicksPerSecond

ValLines ==
    {InvalidLine, NotObjectLine}
    \cup {ObjectLine(t0, t1) :
            t0 \in {None, Some(0), Some(TicksPerSecond), Some(2 * TicksPerSecond)},
            t1 \in {None, Some(ValDuration + TicksPerSecond),
                    Some(ValDuration + TicksPerSecond + 1)}}

ValRecordings ==
    {[kind |-> "invalid", duration_s |-> None],
     [kind |-> "object", duration_s |-> None],
     [kind |-> "object", duration_s |-> Some(ValDuration)]}

AllRequired == {Required[i] : i \in 1..Len(Required)}

\* The required files that may be absent.
ValGone ==
    {{}, {"segments.json"}, {"events.jsonl"}, {"recording.json"},
     {"recording.json", "events.csv"}}

\* The directory with the files of gone absent; an absent file has no content.
ValDir(gone, rec, lines) ==
    [files |-> AllRequired \ gone,
     recording_json |-> IF "recording.json" \in gone
                        THEN [kind |-> "object", duration_s |-> None] ELSE rec,
     events_jsonl |-> IF "events.jsonl" \in gone THEN <<>> ELSE lines]

InitValidate ==
    /\ pc = "call"
    /\ \E gone \in ValGone, rec \in ValRecordings :
         \E lines \in SeqsUpTo(ValLines, MaxLines) :
            processed_dir = ValDir(gone, rec, lines)
    /\ errors = <<>>
    /\ raised = FALSE
    /\ IdleMerge
    /\ IdleCluster
    /\ IdleEvents
    /\ IdlePipeline
    /\ IdleSplit
    /\ IdleVad
    /\ IdleGui

\* One call of validate_processed_dir on the chosen directory.
CallValidateProcessedDir ==
    /\ pc = "call"
    /\ LET r == ValidateProcessedDir(processed_dir)
       IN /\ errors' = r.errors
          /\ raised' = r.raised
    /\ pc' = "done"
    /\ UNCHANGED <<processed_dir, varsMerge, varsCluster, varsEvents, varsPipeline, varsSplit, varsVad, varsGui>>

NextValidate == CallValidateProcessedDir

SpecValidate == InitValidate /\ [][NextValidate]_vars

\* --- Claims about validate_processed_dir ---

\* How many entries of the list es are the string e.
Count(es, e) == Cardinality({i \in 1..Len(es) : es[i] = e})

\* The lines of events.jsonl that carry both t0 and t1.
CompleteLine(line) == line.kind = "object" /\ line.t0 # None /\ line.t1 # None

\* Line i steps back: its t0 is below the t0 of the nearest complete line before it.
StepsBack(lines, i) ==
    /\ CompleteLine(lines[i])
    /\ \E j \in 1..(i - 1) :
          /\ CompleteLine(lines[j])
          /\ \A k \in (j + 1)..(i - 1) : ~CompleteLine(lines[k])
          /\ lines[i].t0[1] < lines[j].t0[1]

\* The probed duration the directory records, or None.
RecordedDuration(dir) ==
    IF "recording.json" \in dir.files /\ dir.recording_json.kind = "object"
    THEN dir.recording_json.duration_s ELSE None

\* C10: a run that returns reports every violation present in events.jsonl:
\* one report per unparseable line, per line without t0/t1, per step back in
\* t0 and per line over the duration, wherever in the file they are.
C10_ReportsEveryViolation ==
    (pc = "done" /\ ~raised /\ "events.jsonl" \in processed_dir.files) =>
        LET lines == processed_dir.events_jsonl
            d == RecordedDuration(processed_dir)
            idx == 1..Len(lines)
        IN /\ Count(errors, "events.jsonl has invalid JSON")
                = Cardinality({i \in idx : lines[i].kind = "invalid"})
           /\ Count(errors, "events.jsonl missing t0/t1")
                = Cardinality({i \in idx : lines[i].kind = "object"
                                           /\ ~CompleteLine(lines[i])})
           /\ Count(errors, "events.jsonl not monotonic")
                = Cardinality({i \in idx : StepsBack(lines, i)})
           /\ Count(errors, "events.jsonl exceeds duration")
                = Cardinality({i \in idx :
                      /\ CompleteLine(lines[i])
                      /\ d # None
                      /\ lines[i].t1[1] > d[1] + TicksPerSecond})

\* C11: validate_processed_dir never raises: whatever the directory holds,
\* the call returns a list.
C11_NeverRaises == pc = "done" => ~raised

\* The lines of events.jsonl the scan examines: all of them up to and
\* including the first unparseable one.
Examined(lines) ==
    {i \in 1..Len(lines) : \A j \in 1..(i - 1) : lines[j].kind # "invalid"}

MaxRuns == 2

\* The input files explored: two names, three contents, one parent directory
\* and one modification time.
Stems == {"a", "b"}

Contents == {"A", "B", "N"}

InputFile(stem, content) ==
    [parent |-> "in", stem |-> stem, suffix |-> ".wav", content |-> content,
     mtime_date |-> "m", mtime |-> 7200 * TicksPerSecond]

\* io/hash.py sha256_file: the hex digest as <<its first 8 digits, the rest>>,
\* injective in the content.  The digests of "A" and "B" agree on the first
\* eight digits, the part that names the recording directory.
Sha256File(file) ==
    IF file.content = "A" THEN <<"h8", "a">>
    ELSE IF file.content = "B" THEN <<"h8", "b">>
    ELSE <<"n8", "n">>

\* ffprobe's format.duration of a file with this content: 61.0004 s, 61 s, or
\* absent for a content ffprobe reports no duration of.
FormatDuration(content) ==
    IF content = "A" THEN Some(61 * TicksPerSecond + 4)
    ELSE IF content = "B" THEN Some(61 * TicksPerSecond)
    ELSE None

\* io/ffmpeg.py probe_duration: None stands for the ValueError it raises.
ProbeDuration(content) == FormatDuration(content)

\* run_vad on the audio converted from a file with this content: "A" has
\* speech at 1.0004-3 s and at 20-60 s, "B" has none.
RunVad(content) ==
    IF content = "A"
    THEN <<VadSegment(TicksPerSecond + 4, 3 * TicksPerSecond),
           VadSegment(20 * TicksPerSecond, 60 * TicksPerSecond)>>
    ELSE <<>>

\* _resolve_date
ResolveDate(file, override) ==
    IF override # None THEN override[1] ELSE file.mtime_date

\* gui/date_parser.py DateTimeParser.parse_filename: the names explored hold
\* no date and time.
ParseFilename(name) == None

\* _resolve_start_time
ResolveStartTime(file, start_arg, use_mtime) ==
    IF start_arg # None THEN [dt |-> start_arg, source |-> "user_set"]
    ELSE IF ParseFilename(file.stem) # None
    THEN [dt |-> ParseFilename(file.stem), source |-> "filename"]
    ELSE IF ParseFilename(file.parent) # None
    THEN [dt |-> ParseFilename(file.parent), source |-> "directory_name"]
    ELSE IF use_mtime THEN [dt |-> Some(file.mtime), source |-> "file_mtime"]
    ELSE [dt |-> None, source |-> "unknown"]

\* Mutant: the identifier is also salted with the number of calls made so far.
RecordingIdPerRun(file_hash, duration_s) ==
    <<"uuid5", file_hash, Round3(duration_s), Len(runs)>>

\* _recording_id: uuid5(NAMESPACE_URL, "<file_hash>:<duration_s:.3f>"), taken
\* as injective in its basis.
RecordingId(file_hash, duration_s) == <<"uuid5", file_hash, Round3(duration_s)>>

\* io/paths.py build_paths: the recording directory and the original copy.
BuildPaths(date_str, recording_name, original_suffix) ==
    [recording_dir |-> <<date_str, recording_name>>,
     original_copy |-> <<date_str, recording_name, "original", original_suffix>>]

\* asr.py _split_large_segments, for one segment.  The times explored divide
\* evenly, so the float division is exact.
SplitSegment(t0, t1, max_duration_s) ==
    LET duration == t1 - t0
    IN IF duration <= max_duration_s THEN <<(<<t0, t1>>)>>
       ELSE LET n_chunks == (duration \div max_duration_s) + 1
                chunk_duration == duration \div n_chunks
            IN [i \in 1..n_chunks |->
                  <<t0 + (i - 1) * chunk_duration,
                    Min(t0 + i * chunk_duration, t1)>>]

RECURSIVE SplitLargeSegments(_, _, _)
SplitLargeSegments(segments, i, max_duration_s) ==
    IF i > Len(segments) THEN <<>>
    ELSE SplitSegment(segments[i][1], segments[i][2], max_duration_s)
         \o SplitLargeSegments(segments, i + 1, max_duration_s)

\* Times of the split calls explored, in twelfths of a second: every duration
\* is a whole number of seconds below MaxSplitS, so a division by up to four
\* sub-intervals is exact.
SplitUnit == 12
MaxSplitS == 6
MaxSplitSegments == 2

InitSplit ==
    /\ pc = "idle"
    /\ \E segments \in SeqsUpTo({<<SplitUnit * a, SplitUnit * (a + d)>> :
                                    a \in 0..1, d \in 1..MaxSplitS}, MaxSplitSegments),
          max_duration_s \in {2 * SplitUnit, 3 * SplitUnit} :
            split = [segments |-> segments, max_duration_s |-> max_duration_s,
                     done |-> FALSE, result |-> <<>>]
    /\ IdleMerge
    /\ IdleCluster
    /\ IdleEvents
    /\ IdleValidate
    /\ IdlePipeline
    /\ IdleVad
    /\ IdleGui

CallSplitLargeSegments ==
    /\ ~split.done
    /\ split' = [split EXCEPT
                   !.done = TRUE,
                   !.result = SplitLargeSegments(split.segments, 1, split.max_duration_s)]
    /\ UNCHANGED <<pc, varsMerge, varsCluster, varsEvents, varsValidate, varsPipeline,
                   varsVad, varsGui>>

NextSplit == CallSplitLargeSegments

SpecSplit == InitSplit /\ [][NextSplit]_vars

\* The split the specification describes for one interval: unchanged when no
\* longer than the cap, else ceil(d / cap) equal contiguous sub-intervals.
CeilSplit(t0, t1, cap) ==
    LET d == t1 - t0
        n == (d + cap - 1) \div cap
    IN IF d <= cap THEN <<(<<t0, t1>>)>>
       ELSE [i \in 1..n |-> <<t0 + ((i - 1) * d) \div n, t0 + (i * d) \div n>>]

RECURSIVE CeilSplitAll(_, _, _)
CeilSplitAll(segments, i, cap) ==
    IF i > Len(segments) THEN <<>>
    ELSE CeilSplit(segments[i][1], segments[i][2], cap)
         \o CeilSplitAll(segments, i + 1, cap)

\* C18: _split_large_segments returns, for each interval in turn, the
\* interval itself when it is no longer than the cap and otherwise exactly
\* ceil(d / cap) contiguous sub-intervals of equal length from t0 to t1.
C18_SplitIntoCeilParts ==
    split.done =>
        split.result = CeilSplitAll(split.segments, 1, split.max_duration_s)

\* Mutant: a failed interval ends the loop, the intervals after it are lost.
RECURSIVE TranscribeLoopAbort(_, _, _)
TranscribeLoopAbort(split_segments, i, asr) ==
    IF i > Len(split_segments) THEN <<>>
    ELSE LET t0 == split_segments[i][1]
             t1 == split_segments[i][2]
             duration == Max(0, t1 - t0)
             rest == TranscribeLoopAbort(split_segments, i + 1, asr)
         IN IF duration <= 0 THEN rest
            ELSE IF i \in asr.failed
            THEN <<TranscriptChunk(t0, t1, <<>>, Some("exc"))>>
            ELSE <<TranscriptChunk(t0 + 0, t0 + duration + asr.over, <<"w">>, None)>> \o rest

\* The loop of transcribe_segments over split_segments[i..]: an interval of
\* no duration is skipped; an interval in failed raises inside the try and
\* leaves a chunk with empty text and the error; any other is transcribed as
\* one segment from segment.start = 0 to segment.end, which the recogniser
\* puts asr.over beyond the end of the clip.
RECURSIVE TranscribeLoop(_, _, _)
TranscribeLoop(split_segments, i, asr) ==
    IF i > Len(split_segments) THEN <<>>
    ELSE LET t0 == split_segments[i][1]
             t1 == split_segments[i][2]
             duration == Max(0, t1 - t0)
             rest == TranscribeLoop(split_segments, i + 1, asr)
         IN IF duration <= 0 THEN rest
            ELSE IF i \in asr.failed
            THEN <<TranscriptChunk(t0, t1, <<>>, Some("exc"))>> \o rest
            ELSE <<TranscriptChunk(t0 + 0, t0 + duration + asr.over, <<"w">>, None)>> \o rest

\* asr.py transcribe_segments
TranscribeSegments(segments, asr) ==
    LET split_segments == SplitLargeSegments(segments, 1, 30 * TicksPerSecond)
    IN [chunks |-> TranscribeLoop(split_segments, 1, asr),
        detected_language |->
            IF \E i \in 1..Len(split_segments) :
                  i \notin asr.failed /\ split_segments[i][2] > split_segments[i][1]
            THEN Some("sv") ELSE None]

\* Stage 3 of process_recording.  asr.raises: transcribe_segments itself
\* raises; asr.failed: the split intervals whose transcription fails;
\* asr.over: how far beyond the clip the recogniser's end time lies.
RunAsr(vad_segs, asr) ==
    IF vad_segs = <<>> THEN [chunks |-> <<>>, detected_language |-> None]
    ELSE IF asr.raises
    THEN [chunks |-> [i \in 1..Len(vad_segs) |->
                        TranscriptChunk(vad_segs[i].t0, vad_segs[i].t1, <<>>, Some("exc"))],
          detected_language |-> None]
    ELSE TranscribeSegments([i \in 1..Len(vad_segs) |-> <<vad_segs[i].t0, vad_segs[i].t1>>],
                            asr)

\* The ASR outcomes explored.
AsrOutcomes ==
    {[raises |-> FALSE, failed |-> {}, over |-> 0],
     [raises |-> FALSE, failed |-> {2}, over |-> 0],
     [raises |-> FALSE, failed |-> {}, over |-> 3 * TicksPerSecond],
     [raises |-> TRUE, failed |-> {}, over |-> 0]}

\* Stage 4: merge_transcript_chunks(transcript_chunks, min_gap_s=15.0)
MergeStage(cks) ==
    IF cks # <<>> THEN MergeTranscriptChunks(cks, 15 * TicksPerSecond) ELSE cks

\* merge.py build_csv_rows
BuildCsvRows(evs) ==
    LET kept == SelectSeq(evs, LAMBDA e : e.event_type # "speech_segment")
    IN [i \in 1..Len(kept) |->
          [event_id |-> kept[i].event_id, event_type |-> kept[i].event_type,
           t0 |-> kept[i].t0, t1 |-> kept[i].t1,
           start_iso |-> kept[i].start_iso, end_iso |-> kept[i].end_iso,
           speaker_id |-> kept[i].speaker_id, text |-> kept[i].text,
           error |-> kept[i].error]]

\* io/recording.py build_recording_metadata, without the tool versions and
\* the configuration.
BuildRecordingMetadata(rec, run, input_path, duration_s, start, start_source, file_hash) ==
    [schema_version |-> "SCHEMA_VERSION", pipeline_version |-> "PIPELINE_VERSION",
     recording_id |-> rec, run_id |-> run,
     input |-> [path |-> input_path, sha256 |-> file_hash, duration_s |-> duration_s],
     start_time |-> start,
     end_time |-> IF start # None THEN Some(start[1] + duration_s) ELSE None,
     start_time_source |-> start_source]

\* Mutant: 'Merging completed' is reported at 0.80, below 'ASR Completed'.
ProgressReportsDip(vad_segs) ==
    <<(<<"Initializing", 5>>), <<"Converting audio", 10>>, <<"Audio converted", 20>>,
      <<"Running VAD", 25>>, <<"VAD detailed", 30>>>>
    \o (IF vad_segs # <<>> THEN <<(<<"Initializing Whisper", 35>>)>> ELSE <<>>)
    \o <<(<<"ASR Completed", 85>>), <<"Merging completed", 80>>,
         <<"Saving outputs", 95>>, <<"Completed", 100>>>>

\* Mutant: with no chunks, the transcript and the event files are not written.
WrittenNamesSkipEmpty(cks) ==
    IF cks # <<>>
    THEN {"segments.json", "transcript.json", "transcript.txt", "events.jsonl",
          "events.csv", "recording.json", "audio_chunks"}
    ELSE {"segments.json", "recording.json"}

\* The (stage, percent) reports process_recording makes through _report on a
\* run that returns, a progress_callback being given.  _asr_callback is
\* defined but never handed to transcribe_segments, so it reports nothing.
ProgressReports(vad_segs) ==
    <<(<<"Initializing", 5>>), <<"Converting audio", 10>>, <<"Audio converted", 20>>,
      <<"Running VAD", 25>>, <<"VAD detailed", 30>>>>
    \o (IF vad_segs # <<>> THEN <<(<<"Initializing Whisper", 35>>)>> ELSE <<>>)
    \o <<(<<"ASR Completed", 85>>), <<"Merging completed", 90>>,
         <<"Saving outputs", 95>>, <<"Completed", 100>>>>

\* The stage functions process_recording invokes on a run that returns, in
\* order.  chunks_left is the chunk list stage 3 leaves.
StagesInvoked(vad_segs, chunks_left) ==
    <<"convert_to_wav", "run_vad">>
    \o (IF vad_segs # <<>> THEN <<"transcribe_segments">> ELSE <<>>)
    \o (IF chunks_left # <<>>
        THEN <<"merge_transcript_chunks", "export_audio_chunks">> ELSE <<>>)
    \o <<"build_events", "build_csv_rows", "build_recording_metadata">>

\* The names process_recording writes in the processed directory:
\* audio_chunks only when export_audio_chunks is called.
WrittenNames(cks) ==
    {"segments.json", "transcript.json", "transcript.txt", "events.jsonl",
     "events.csv", "recording.json"}
    \cup (IF cks # <<>> THEN {"audio_chunks"} ELSE {})

\* What process_recording writes into the processed directory, by name.
\* audio_chunks holds the stems of the files export_audio_chunks writes.
\* Mutant: the exported files are numbered in the order of the chunks.
ExportAudioChunksNumbered(cks, start) ==
    {<<"chunk_", ZeroPad6(i)>> : i \in 1..Len(cks)}

\* merge.py export_audio_chunks: the stems of the .wav files written, one
\* per merged chunk.
ExportAudioChunks(cks, start) ==
    {TimestampChunkId(start, cks[i].t0) : i \in 1..Len(cks)}

Artifacts(rec, run, paths, file_hash, duration_s, start, vad_segs, asr_result, cks, evs) ==
    LET with_text == SelectSeq(cks, LAMBDA c : c.text # <<>>)
        segments_json ==
            [schema_version |-> "SCHEMA_VERSION", recording_id |-> rec,
             segments |-> vad_segs]
        transcript_json ==
            [schema_version |-> "SCHEMA_VERSION", recording_id |-> rec,
             language |-> asr_result.detected_language,
             start_time |-> start.dt,
             end_time |-> IF start.dt # None THEN Some(start.dt[1] + duration_s) ELSE None,
             duration_s |-> duration_s,
             chunks |-> [i \in 1..Len(cks) |->
                           [chunk_id |-> TimestampChunkId(start.dt, cks[i].t0),
                            t0 |-> cks[i].t0, t1 |-> cks[i].t1, text |-> cks[i].text,
                            asr_confidence |-> cks[i].asr_confidence,
                            error |-> cks[i].error]]]
        transcript_txt ==
            [i \in 1..Len(with_text) |->
                <<TimestampChunkId(start.dt, with_text[i].t0), with_text[i].text>>]
        recording_json ==
            BuildRecordingMetadata(rec, run, paths.original_copy, duration_s,
                                   start.dt, start.source, file_hash)
        audio_chunks == ExportAudioChunks(cks, start.dt)
    IN [name \in WrittenNames(cks) |->
          CASE name = "segments.json" -> [json |-> segments_json]
            [] name = "transcript.json" -> [json |-> transcript_json]
            [] name = "transcript.txt" -> [lines |-> transcript_txt]
            [] name = "events.jsonl" -> [lines |-> evs]
            [] name = "events.csv" -> [rows |-> BuildCsvRows(evs)]
            [] name = "recording.json" -> [json |-> recording_json]
            [] name = "audio_chunks" -> [stems |-> audio_chunks]]

\* The processed directory after the writes: a file written replaces the one
\* of that name, the audio chunks exported earlier stay beside the new ones.
Overlay(old, new) ==
    [name \in DOMAIN old \cup DOMAIN new |->
        IF name \notin DOMAIN new THEN old[name]
        ELSE IF name = "audio_chunks" /\ name \in DOMAIN old
        THEN [stems |-> old[name].stems \cup new[name].stems]
        ELSE new[name]]

\* f with f[k] = v added or replaced.
Put(f, k, v) == [x \in DOMAIN f \cup {k} |-> IF x = k THEN v ELSE f[x]]

\* The output root after "if not paths.original_copy.exists(): copy2(...)".
CopyOriginal(file, paths) ==
    IF paths.original_copy \in DOMAIN originals THEN originals
    ELSE Put(originals, paths.original_copy, file.content)

\* The paths process_recording builds for the file.
PathsOf(file, date_override) ==
    LET file_hash == Sha256File(file)
    IN BuildPaths(ResolveDate(file, date_override), <<file.stem, file_hash[1]>>,
                  file.suffix)

\* The entry `runs` keeps of a call: its arguments and the identifiers it drew.
RunRecord(file, date_override, start_arg, duration_s, rec, run, outcome) ==
    [stem |-> file.stem, content |-> file.content, date_override |-> date_override,
     recording_dir |-> PathsOf(file, date_override).recording_dir,
     start_time |-> start_arg, duration_s |-> duration_s,
     recording_id |-> rec, run_id |-> run, outcome |-> outcome]

Init ==
    /\ pc = "idle"
    /\ IdlePipeline
    /\ IdleSplit
    /\ IdleVad
    /\ IdleGui
    /\ IdleMerge
    /\ IdleCluster
    /\ IdleEvents
    /\ IdleValidate

\* One call of process_recording that returns.  uuid4 is taken as never
\* repeating: the run id is the number of the call.
ProcessRecording(file, date_override, start_arg, use_mtime, asr) ==
    LET file_hash == Sha256File(file)
        paths == PathsOf(file, date_override)
        copied == CopyOriginal(file, paths)
        probed == ProbeDuration(copied[paths.original_copy])
    IN /\ pc = "idle"
       /\ Len(runs) < MaxRuns
       /\ probed # None
       /\ LET duration_s == probed[1]
              rec == RecordingId(file_hash, duration_s)
              run == <<"uuid4", Len(runs) + 1>>
              start == ResolveStartTime(file, start_arg, use_mtime)
              vad_segs == RunVad(copied[paths.original_copy])
              asr_result == RunAsr(vad_segs, asr)
              cks == MergeStage(asr_result.chunks)
              evs == BuildEvents(rec, run, start.dt, vad_segs, cks)
          IN /\ originals' = copied
             /\ recording_id' = rec
             /\ run_id' = run
             /\ start_time' = start.dt
             /\ vad_segments' = vad_segs
             /\ transcript_chunks' = cks
             /\ events' = evs
             /\ processed' =
                  Put(processed, paths.recording_dir,
                      Overlay(IF paths.recording_dir \in DOMAIN processed
                              THEN processed[paths.recording_dir] ELSE <<>>,
                              Artifacts(rec, run, paths, file_hash, duration_s, start,
                                        vad_segs, asr_result, cks, evs)))
             /\ invoked' = StagesInvoked(vad_segs, asr_result.chunks)
             /\ progress' = ProgressReports(vad_segs)
             /\ asr_outcome' = IF vad_segs # <<>> THEN Some(asr) ELSE None
             /\ asr_chunks' = asr_result.chunks
             /\ runs' = Append(runs, RunRecord(file, date_override, start_arg,
                                               Some(duration_s), rec, run, "completed"))
       /\ UNCHANGED <<pc, varsMerge, varsCluster, varsValidate, varsSplit, varsVad, varsGui>>

\* One call of process_recording that ends in probe_duration's ValueError:
\* the original has been copied, nothing else is written.
ProcessRecordingRaises(file, date_override, start_arg) ==
    LET paths == PathsOf(file, date_override)
        copied == CopyOriginal(file, paths)
    IN /\ pc = "idle"
       /\ Len(runs) < MaxRuns
       /\ ProbeDuration(copied[paths.original_copy]) = None
       /\ originals' = copied
       /\ runs' = Append(runs, RunRecord(file, date_override, start_arg,
                                         None, None, None, "raised"))
       /\ invoked' = <<>>
       /\ progress' = <<(<<"Initializing", 5>>)>>
       /\ asr_outcome' = None
       /\ asr_chunks' = <<>>
       /\ UNCHANGED <<pc, processed, varsMerge, varsCluster, varsEvents, varsValidate, varsSplit, varsVad, varsGui>>

\* The user's start time explored, 01:00:00 of the day.
StartArgs == {None, Some(3600 * TicksPerSecond)}

Next ==
    /\ \E stem \in Stems, content \in Contents, date_override \in {None, Some("d")},
          start_arg \in StartArgs :
           \/ \E use_mtime \in BOOLEAN, asr \in AsrOutcomes :
                 ProcessRecording(InputFile(stem, content), date_override, start_arg,
                                  use_mtime, asr)
           \/ ProcessRecordingRaises(InputFile(stem, content), date_override, start_arg)
    /\ UNCHANGED batch

Spec == Init /\ [][Next]_vars

\* ---------------------------------------------------------------------
\* pipeline/run.py: run_pipeline over a directory of files
\* ---------------------------------------------------------------------

\* The files iter_input_files yields for the directories explored: at most
\* MaxRuns of the input files, in the order of their paths.
InitBatch ==
    /\ pc = "idle"
    /\ originals = <<>>
    /\ processed = <<>>
    /\ runs = <<>>
    /\ invoked = <<>>
    /\ progress = <<>>
    /\ asr_outcome = None
    /\ asr_chunks = <<>>
    /\ \E files \in SeqsUpTo({InputFile(stem, content) :
                                 stem \in Stems, content \in Contents}, MaxRuns),
          date_override \in {None, Some("d")}, start_arg \in StartArgs,
          use_mtime \in BOOLEAN :
            batch = [state |-> "running", input |-> files, files |-> files,
                     outputs |-> <<>>, date_override |-> date_override,
                     start_time |-> start_arg, use_mtime |-> use_mtime]
    /\ IdleMerge
    /\ IdleCluster
    /\ IdleEvents
    /\ IdleValidate
    /\ IdleSplit
    /\ IdleVad
    /\ IdleGui

\* One turn of the for loop of run_pipeline in which process_recording
\* returns: its recording_dir is appended to outputs.
RunPipelineProcess ==
    /\ batch.state = "running"
    /\ batch.files # <<>>
    /\ \E asr \in AsrOutcomes :
          ProcessRecording(Head(batch.files), batch.date_override, batch.start_time,
                           batch.use_mtime, asr)
    /\ batch' = [batch EXCEPT
                   !.files = Tail(@),
                   !.outputs = Append(@, PathsOf(Head(batch.files),
                                                 batch.date_override).recording_dir)]

\* One turn of the loop in which process_recording raises: nothing catches
\* the exception, it leaves run_pipeline with the other files unprocessed.
RunPipelineAborts ==
    /\ batch.state = "running"
    /\ batch.files # <<>>
    /\ ProcessRecordingRaises(Head(batch.files), batch.date_override, batch.start_time)
    /\ batch' = [batch EXCEPT !.state = "raised"]

\* The loop is over: run_pipeline returns outputs, or raises FileNotFoundError
\* when there are none.
RunPipelineReturns ==
    /\ batch.state = "running"
    /\ batch.files = <<>>
    /\ batch' = [batch EXCEPT
                   !.state = IF batch.outputs = <<>> THEN "raised" ELSE "returned"]
    /\ UNCHANGED <<pc, originals, processed, runs, invoked, progress, asr_outcome,
                   asr_chunks, varsMerge, varsCluster, varsEvents, varsValidate, varsSplit, varsVad, varsGui>>

NextBatch == RunPipelineProcess \/ RunPipelineAborts \/ RunPipelineReturns

SpecBatch == InitBatch /\ [][NextBatch]_vars

\* C17: a fatal error in one recording does not end the batch: when
\* run_pipeline is over, process_recording has been called on every file of
\* the directory.
C17_BatchSurvivesFatal ==
    batch.state \in {"returned", "raised"} => Len(runs) = Len(batch.input)

\* --- Claims about process_recording ---

\* C5: two process_recording calls on files of identical bytes whose probed
\* durations agree to 3 decimals draw the same recording_id, whatever the
\* file name, the date override, the start time and the call they are.
C5_RecordingIdPure ==
    \A i, j \in 1..Len(runs) :
        (/\ runs[i].outcome = "completed"
         /\ runs[j].outcome = "completed"
         /\ runs[i].content = runs[j].content
         /\ Round3(runs[i].duration_s[1]) = Round3(runs[j].duration_s[1]))
        => runs[i].recording_id = runs[j].recording_id

\* Two completed calls on the same bytes and probed duration that differ in
\* file name, date override, start time and run id.
C5_Witness ==
    \E i, j \in 1..Len(runs) :
        /\ i < j
        /\ runs[i].outcome = "completed"
        /\ runs[j].outcome = "completed"
        /\ runs[i].content = runs[j].content
        /\ runs[i].duration_s = runs[j].duration_s
        /\ runs[i].stem # runs[j].stem
        /\ runs[i].date_override # runs[j].date_override
        /\ runs[i].start_time # runs[j].start_time
        /\ runs[i].run_id # runs[j].run_id
        /\ runs[j].recording_id = recording_id

\* The last process_recording call returned.
LastCompleted == runs # <<>> /\ runs[Len(runs)].outcome = "completed"

\* The processed directory of the last call.
LastProcessed == processed[runs[Len(runs)].recording_dir]

\* C14: a call whose VAD finds no speech returns without invoking ASR,
\* clustering or audio-chunk export, and has written every required artifact,
\* each holding an empty list.
C14_SilenceWritesAllArtifacts ==
    (LastCompleted /\ vad_segments = <<>>) =>
        /\ \A i \in 1..Len(invoked) :
              invoked[i] \notin {"transcribe_segments", "merge_transcript_chunks",
                                 "export_audio_chunks"}
        /\ transcript_chunks = <<>>
        /\ AllRequired \subseteq DOMAIN LastProcessed
        /\ LastProcessed["segments.json"].json.segments = <<>>
        /\ LastProcessed["transcript.json"].json.chunks = <<>>
        /\ LastProcessed["transcript.txt"].lines = <<>>
        /\ LastProcessed["events.jsonl"].lines = <<>>
        /\ LastProcessed["events.csv"].rows = <<>>
        /\ LastProcessed["recording.json"].json.recording_id = recording_id
        /\ LastProcessed["segments.json"].json.recording_id = recording_id

\* A call on a silent recording has returned, into a directory of its own.
C14_Witness ==
    /\ LastCompleted
    /\ vad_segments = <<>>
    /\ runs[Len(runs)].content = "B"
    /\ "audio_chunks" \notin DOMAIN LastProcessed
    /\ invoked = <<"convert_to_wav", "run_vad", "build_events", "build_csv_rows",
                   "build_recording_metadata">>

\* The index of the first report of the stage in progress, 0 when absent.
FirstReport(stage) ==
    IF \E i \in 1..Len(progress) : progress[i][1] = stage
    THEN CHOOSE i \in 1..Len(progress) :
            /\ progress[i][1] = stage
            /\ \A j \in 1..(i - 1) : progress[j][1] # stage
    ELSE 0

\* C15: on every call that returns the progress values reported never
\* decrease, 'Initializing', 'Converting audio' and 'Running VAD' are reported
\* in that order, and the last report is ('Completed', 1.0).
C15_ProgressMonotone ==
    LastCompleted =>
        /\ \A i \in 1..(Len(progress) - 1) : progress[i][2] <= progress[i + 1][2]
        /\ 0 < FirstReport("Initializing")
        /\ FirstReport("Initializing") < FirstReport("Converting audio")
        /\ FirstReport("Converting audio") < FirstReport("Running VAD")
        /\ progress[Len(progress)] = <<"Completed", 100>>

\* A call with speech whose ASR raised has returned, after a call without
\* speech.
C15_Witness ==
    /\ LastCompleted
    /\ Len(runs) = 2
    /\ runs[1].outcome = "completed" /\ runs[1].content = "B"
    /\ vad_segments # <<>>
    /\ \A i \in 1..Len(transcript_chunks) : transcript_chunks[i].error # None
    /\ \E i \in 1..Len(progress) : progress[i][1] = "Initializing Whisper"

\* The intervals the last call handed to the recogniser, one after another.
LastSplit ==
    SplitLargeSegments([i \in 1..Len(vad_segments) |->
                           <<vad_segments[i].t0, vad_segments[i].t1>>],
                       1, 30 * TicksPerSecond)

\* C16: when transcribe_segments returns, each interval whose transcription
\* failed has left one chunk with empty text and an error over exactly that
\* interval, every other interval has kept its transcribed chunk, and
\* process_recording has returned with its event log written.
C16_AsrFailurePerInterval ==
    (LastCompleted /\ asr_outcome # None /\ ~asr_outcome[1].raises) =>
        /\ Len(asr_chunks) = Len(LastSplit)
        /\ \A i \in 1..Len(LastSplit) :
              /\ asr_chunks[i].t0 = LastSplit[i][1]
              /\ IF i \in asr_outcome[1].failed
                 THEN /\ asr_chunks[i].t1 = LastSplit[i][2]
                      /\ asr_chunks[i].text = <<>>
                      /\ asr_chunks[i].error # None
                 ELSE /\ asr_chunks[i].t1 >= LastSplit[i][2]
                      /\ asr_chunks[i].text # <<>>
                      /\ asr_chunks[i].error = None
        /\ "events.jsonl" \in DOMAIN LastProcessed
        /\ LastProcessed["events.jsonl"].lines = events
        /\ \E i \in 1..Len(events) : events[i].event_type = "transcript_chunk"

\* The second of three intervals failed and the third was transcribed.
C16_Witness ==
    /\ LastCompleted
    /\ asr_outcome # None
    /\ asr_outcome[1].failed = {2}
    /\ Len(asr_chunks) = 3
    /\ asr_chunks[2].error # None
    /\ asr_chunks[3].text # <<>>
    /\ \E i \in 1..Len(events) : events[i].error # None

\* The events of a log that carry text.
TextBearing(evs) ==
    SelectSeq(evs, LAMBDA e : e.event_type = "transcript_chunk" /\ e.text # Some(<<>>))

\* C19: events.csv holds exactly the text-bearing transcript_chunk events of
\* the event log, in log order: no speech_segment event and no chunk with
\* empty text; events.jsonl keeps one speech_segment event per VAD segment.
C19_CsvOnlyTextBearing ==
    LastCompleted =>
        LET rows == LastProcessed["events.csv"].rows
            log == LastProcessed["events.jsonl"].lines
            kept == TextBearing(log)
        IN /\ Len(rows) = Len(kept)
           /\ \A i \in 1..Len(rows) :
                 /\ rows[i].event_id = kept[i].event_id
                 /\ rows[i].t0 = kept[i].t0
                 /\ rows[i].text = kept[i].text
           /\ Len(SelectSeq(log, LAMBDA e : e.event_type = "speech_segment"))
                 = Len(vad_segments)

\* The identifier the specification gives a block that begins t0 after the
\* start of the recording.
BlockId(t0) ==
    IF start_time # None
    THEN <<"ts", (start_time[1] + t0) \div TicksPerSecond>>
    ELSE <<"chunk_", ZeroPad6(t0 \div TicksPerSecond)>>

\* C20: every merged block of a completed call carries one identifier, the
\* timestamp of start + t0 or else the six-digit placeholder of int(t0): it
\* is the event_id of the block's transcript_chunk event, its chunk_id in
\* transcript.json, the prefix of its transcript.txt line when it has one,
\* and the stem of its exported audio chunk.
C20_OneIdPerBlock ==
    (LastCompleted /\ transcript_chunks # <<>>) =>
        LET log == LastProcessed["events.jsonl"].lines
            chunk_events == SelectSeq(log, LAMBDA e : e.event_type = "transcript_chunk")
            record == LastProcessed["transcript.json"].json.chunks
            with_text == SelectSeq(transcript_chunks, LAMBDA c : c.text # <<>>)
            txt == LastProcessed["transcript.txt"].lines
        IN /\ Len(chunk_events) = Len(transcript_chunks)
           /\ Len(record) = Len(transcript_chunks)
           /\ Len(txt) = Len(with_text)
           /\ \A i \in 1..Len(transcript_chunks) :
                 LET id == BlockId(transcript_chunks[i].t0)
                 IN /\ \E j \in 1..Len(chunk_events) :
                          /\ chunk_events[j].event_id = id
                          /\ chunk_events[j].t0 = TicksPerMs * Round3(transcript_chunks[i].t0)
                    /\ record[i].chunk_id = id
                    /\ record[i].t0 = transcript_chunks[i].t0
                    /\ id \in LastProcessed["audio_chunks"].stems
           /\ \A i \in 1..Len(with_text) :
                 txt[i] = <<BlockId(with_text[i].t0), with_text[i].text>>

\* A call with a known start time has left two blocks, the first with text.
C20_Witness ==
    /\ LastCompleted
    /\ start_time # None
    /\ Len(transcript_chunks) = 2
    /\ transcript_chunks[1].text # <<>>
    /\ LastProcessed["transcript.txt"].lines # <<>>
    /\ BlockId(transcript_chunks[1].t0) # BlockId(transcript_chunks[2].t0)

\* A call without a start time has named its blocks by the placeholder.
C20_PlaceholderReached ==
    /\ LastCompleted
    /\ start_time = None
    /\ Len(transcript_chunks) = 2
    /\ <<"chunk_", <<0, 0, 0, 0, 2, 0>> >> \in LastProcessed["audio_chunks"].stems

\* The speech_segment events of the log call i of process_recording wrote.
SpeechLog(i) ==
    SelectSeq(processed[runs[i].recording_dir]["events.jsonl"].lines,
              LAMBDA e : e.event_type = "speech_segment")

\* No later call has written over the directory of call i.
LogKept(i) ==
    /\ runs[i].outcome = "completed"
    /\ \A j \in (i + 1)..Len(runs) :
          runs[j].outcome = "completed" => runs[j].recording_dir # runs[i].recording_dir

\* C21: the event_id of a speech_segment event is fixed by the recording_id,
\* the event type and t0 and t1 to the millisecond: two speech events of one
\* recording with the same times carry the same id, whatever the run_id
\* and the start time of the calls that wrote them.
C21_SpeechIdsStable ==
    \A i, j \in 1..Len(runs) :
        (/\ LogKept(i)
         /\ LogKept(j)
         /\ runs[i].recording_id = runs[j].recording_id)
        => \A k \in 1..Len(SpeechLog(i)) :
              /\ SpeechLog(i)[k].event_id =
                    <<"uuid5", runs[i].recording_id, "speech_segment",
                      SpeechLog(i)[k].t0 \div TicksPerMs,
                      SpeechLog(i)[k].t1 \div TicksPerMs, "">>
              /\ \A l \in 1..Len(SpeechLog(j)) :
                    (/\ SpeechLog(i)[k].t0 = SpeechLog(j)[l].t0
                     /\ SpeechLog(i)[k].t1 = SpeechLog(j)[l].t1)
                    => SpeechLog(i)[k].event_id = SpeechLog(j)[l].event_id

\* Two completed calls on one recording whose logs stand side by side: they
\* differ in run_id and in start time and hold speech events of the same
\* times.
C21_Witness ==
    \E i, j \in 1..Len(runs) :
        /\ i < j
        /\ runs[i].outcome = "completed"
        /\ runs[j].outcome = "completed"
        /\ runs[i].recording_id = runs[j].recording_id
        /\ runs[i].recording_dir # runs[j].recording_dir
        /\ Len(SpeechLog(i)) = 2
        /\ SpeechLog(i)[1].t0 = SpeechLog(j)[1].t0
        /\ SpeechLog(i)[1].t1 = SpeechLog(j)[1].t1
        /\ SpeechLog(i)[1].run_id # SpeechLog(j)[1].run_id
        /\ SpeechLog(i)[1].start_iso # SpeechLog(j)[1].start_iso

\* ---------------------------------------------------------------------
\* pipeline/vad.py: run_vad, the three-stage cascade
\* ---------------------------------------------------------------------

\* Bounds of the audio explored: at most MaxBlocks blocks of one second, and
\* at most MaxTimestamps speech timestamps from one call of the classifier.
MaxBlocks == 2
MaxTimestamps == 1

\* The sample rate explored, in Hz: one sample is 0.25 s, a spectral
\* window (0.5 s) is two samples and an energy block (1.0 s) four.
VadSampleRate == 4

\* block_samples = int(block_s * sample_rate) with block_s = 1.0
BlockSamples == VadSampleRate

\* window_samples = int(window_s * sample_rate) with window_s = 0.5
WindowSamples == VadSampleRate \div 2

\* _energy_gate from block i on: loud[i] stands for db > db_threshold of
\* block i, start is the sample the open region began at (None: no region
\* is open).
RECURSIVE EnergyGateLoop(_, _, _)
EnergyGateLoop(loud, i, start) ==
    IF i > Len(loud)
    THEN IF start # None THEN <<(<<start[1], Len(loud) * BlockSamples>>)>> ELSE <<>>
    ELSE IF loud[i]
         THEN EnergyGateLoop(loud, i + 1,
                             IF start = None THEN Some((i - 1) * BlockSamples) ELSE start)
         ELSE (IF start # None THEN <<(<<start[1], (i - 1) * BlockSamples>>)>> ELSE <<>>)
              \o EnergyGateLoop(loud, i + 1, None)

EnergyGate(loud) == EnergyGateLoop(loud, 1, None)

\* The windows of one region in _spectral_filter from window i on:
\* speech_like[w] stands for speech_ratio > 0.4 of the w-th window of the
\* audio.  Energy regions begin on a block, so on a window.
RECURSIVE SpectralRegionLoop(_, _, _, _, _)
SpectralRegionLoop(speech_like, start, end, i, speech_start) ==
    LET n_windows == (end - start) \div WindowSamples
        at == start + i * WindowSamples
    IN IF i >= n_windows
       THEN IF speech_start # None THEN <<(<<speech_start[1], end>>)>> ELSE <<>>
       ELSE IF speech_like[(at \div WindowSamples) + 1]
            THEN SpectralRegionLoop(speech_like, start, end, i + 1,
                                    IF speech_start = None THEN Some(at) ELSE speech_start)
            ELSE (IF speech_start # None THEN <<(<<speech_start[1], at>>)>> ELSE <<>>)
                 \o SpectralRegionLoop(speech_like, start, end, i + 1, None)

\* Mutant: the windows of the whole audio are analysed, whatever the energy
\* gate kept.
RECURSIVE SpectralFilterAll(_, _, _)
SpectralFilterAll(speech_like, rs, r) ==
    IF r > 1 THEN <<>>
    ELSE SpectralRegionLoop(speech_like, 0, Len(speech_like) * WindowSamples, 0, None)

\* _spectral_filter from region r on.
RECURSIVE SpectralFilter(_, _, _)
SpectralFilter(speech_like, rs, r) ==
    IF r > Len(rs) THEN <<>>
    ELSE SpectralRegionLoop(speech_like, rs[r][1], rs[r][2], 0, None)
         \o SpectralFilter(speech_like, rs, r + 1)

\* int(config.min_speech_s * 1000): the milliseconds handed to the classifier.
MinSpeechMs(min_speech_s) == min_speech_s \div TicksPerMs

\* What get_speech_timestamps can return for a region of len samples: at
\* most MaxTimestamps timestamps in increasing order inside the region, each
\* at least min_speech_duration_ms long.
ClassifierOutputs(len, min_ms) ==
    {ts \in SeqsUpTo({p \in (0..len) \X (0..len) :
                        /\ p[1] < p[2]
                        /\ (p[2] - p[1]) * 1000 >= min_ms * VadSampleRate},
                     MaxTimestamps) :
        \A k \in 1..(Len(ts) - 1) : ts[k][2] <= ts[k + 1][1]}

\* The configured minimum speech durations explored: the default 0.25 s and
\* 0.2505 s, in ticks.
MinSpeechConfigs == {2500, 2505}

InitVad ==
    /\ pc = "idle"
    /\ \E n \in 1..MaxBlocks :
         \E loud \in [1..n -> BOOLEAN],
            speech_like \in [1..(n * (BlockSamples \div WindowSamples)) -> BOOLEAN],
            min_speech_s \in MinSpeechConfigs :
              vad = [NoVad EXCEPT !.state = "start", !.loud = loud,
                                  !.speech_like = speech_like,
                                  !.min_speech_s = min_speech_s]
    /\ IdleMerge
    /\ IdleCluster
    /\ IdleEvents
    /\ IdleValidate
    /\ IdlePipeline
    /\ IdleSplit
    /\ IdleGui

\* Stages 1 and 2 and the merge of close regions; run_vad returns [] when a
\* stage keeps nothing.
RunVadPrefilter ==
    /\ vad.state = "start"
    /\ LET energy_regions == EnergyGate(vad.loud)
           spectral == IF energy_regions = <<>> THEN <<>>
                       ELSE SpectralFilter(vad.speech_like, energy_regions, 1)
           speech_regions == MergeCloseRegions(spectral, VadSampleRate, 5)
       IN vad' = [vad EXCEPT
                    !.energy_regions = energy_regions,
                    !.spectral_regions = spectral,
                    !.speech_regions = speech_regions,
                    !.state = IF spectral = <<>> THEN "returned" ELSE "classify"]
    /\ UNCHANGED <<pc, varsMerge, varsCluster, varsEvents, varsValidate, varsPipeline,
                   varsSplit, varsGui>>

\* One turn of the stage 3 loop: the next region goes to the classifier and
\* its timestamps become segments at absolute times.
RunVadClassify ==
    /\ vad.state = "classify"
    /\ Len(vad.handed) < Len(vad.speech_regions)
    /\ LET region == vad.speech_regions[Len(vad.handed) + 1]
       IN \E ts \in ClassifierOutputs(region[2] - region[1],
                                      MinSpeechMs(vad.min_speech_s)) :
            vad' = [vad EXCEPT
                      !.handed = Append(@, region),
                      !.all_segments = @ \o
                          [k \in 1..Len(ts) |->
                             VadSegment(((region[1] + ts[k][1]) * TicksPerSecond)
                                            \div VadSampleRate,
                                        ((region[1] + ts[k][2]) * TicksPerSecond)
                                            \div VadSampleRate)]]
    /\ UNCHANGED <<pc, varsMerge, varsCluster, varsEvents, varsValidate, varsPipeline,
                   varsSplit, varsGui>>

\* The classifier cannot be loaded or throws: run_vad raises.
RunVadRaises ==
    /\ vad.state = "classify"
    /\ Len(vad.handed) < Len(vad.speech_regions)
    /\ vad' = [vad EXCEPT !.state = "raised"]
    /\ UNCHANGED <<pc, varsMerge, varsCluster, varsEvents, varsValidate, varsPipeline,
                   varsSplit, varsGui>>

\* Every region has been classified: run_vad returns all_segments.
RunVadReturn ==
    /\ vad.state = "classify"
    /\ Len(vad.handed) = Len(vad.speech_regions)
    /\ vad' = [vad EXCEPT !.state = "returned"]
    /\ UNCHANGED <<pc, varsMerge, varsCluster, varsEvents, varsValidate, varsPipeline,
                   varsSplit, varsGui>>

NextVad == RunVadPrefilter \/ RunVadClassify \/ RunVadRaises \/ RunVadReturn

SpecVad == InitVad /\ [][NextVad]_vars

\* C22: every segment run_vad returns lasts at least the configured minimum
\* speech duration.
C22_SegmentsAtLeastMinSpeech ==
    vad.state = "returned" =>
        \A k \in 1..Len(vad.all_segments) :
            vad.all_segments[k].t1 - vad.all_segments[k].t0 >= vad.min_speech_s

\* The samples of a list of regions.
SamplesOf(rs) == UNION {rs[k][1]..(rs[k][2] - 1) : k \in 1..Len(rs)}

\* The samples of a returned segment.
SegmentSamples(seg) ==
    ((seg.t0 * VadSampleRate) \div TicksPerSecond)
        ..(((seg.t1 * VadSampleRate) \div TicksPerSecond) - 1)

\* C25, as stated: every spectral region lies inside an energy region, and
\* every range handed to the classifier, and every returned segment, lies
\* inside the union of the regions the spectral filter kept.
C25_StrictlyNarrowing ==
    /\ SamplesOf(vad.spectral_regions) \subseteq SamplesOf(vad.energy_regions)
    /\ SamplesOf(vad.handed) \subseteq SamplesOf(vad.spectral_regions)
    /\ \A k \in 1..Len(vad.all_segments) :
          SegmentSamples(vad.all_segments[k]) \subseteq SamplesOf(vad.spectral_regions)

\* C25, amended: every spectral region lies inside one energy region; every
\* range handed to the classifier lies inside one energy region, begins and
\* ends with a spectral region and leaves no more than 0.5 s in a row
\* outside the spectral regions; every returned segment lies inside a range
\* handed to the classifier.
C25_NarrowingUpToGap ==
    /\ \A k \in 1..Len(vad.spectral_regions) :
          \E e \in 1..Len(vad.energy_regions) :
              /\ vad.energy_regions[e][1] <= vad.spectral_regions[k][1]
              /\ vad.spectral_regions[k][2] <= vad.energy_regions[e][2]
    /\ \A k \in 1..Len(vad.handed) :
          LET lo == vad.handed[k][1]
              hi == vad.handed[k][2]
              kept == SamplesOf(vad.spectral_regions)
          IN /\ \E e \in 1..Len(vad.energy_regions) :
                   vad.energy_regions[e][1] <= lo /\ hi <= vad.energy_regions[e][2]
             /\ lo \in kept
             /\ (hi - 1) \in kept
             /\ \A x \in lo..(hi - 1) :
                   (\A y \in x..(x + WindowSamples) : y \notin kept)
                       => x + WindowSamples >= hi
    /\ \A k \in 1..Len(vad.all_segments) :
          \E h \in 1..Len(vad.handed) :
              SegmentSamples(vad.all_segments[k])
                  \subseteq vad.handed[h][1]..(vad.handed[h][2] - 1)

\* A window the spectral filter rejected lies between two it kept: the range
\* handed to the classifier spans it and a segment came back from inside it.
C25_Witness ==
    /\ vad.state = "returned"
    /\ vad.spectral_regions = <<(<<0, 2>>), (<<4, 6>>)>>
    /\ vad.handed = <<(<<0, 6>>)>>
    /\ Len(vad.all_segments) = 1
    /\ SegmentSamples(vad.all_segments[1]) = {2, 3}

\* The processed directory of the last call as validate_processed_dir reads
\* it: the files present, the duration recording.json records and t0 and t1
\* of every line of events.jsonl.
LastAsValDir ==
    [files |-> DOMAIN LastProcessed \cap AllRequired,
     recording_json |->
         [kind |-> "object",
          duration_s |-> Some(LastProcessed["recording.json"].json.input.duration_s)],
     events_jsonl |->
         [i \in 1..Len(LastProcessed["events.jsonl"].lines) |->
            ObjectLine(Some(LastProcessed["events.jsonl"].lines[i].t0),
                       Some(LastProcessed["events.jsonl"].lines[i].t1))]]

\* C23: every event process_recording wrote ends no later than the probed
\* duration plus 1.0 s, and validate_processed_dir reports no
\* 'exceeds duration' on the directory.
C23_OutputWithinDuration ==
    LastCompleted =>
        /\ \A i \in 1..Len(LastProcessed["events.jsonl"].lines) :
              LastProcessed["events.jsonl"].lines[i].t1
                  <= runs[Len(runs)].duration_s[1] + TicksPerSecond
        /\ \A k \in 1..Len(ValidateProcessedDir(LastAsValDir).errors) :
              ValidateProcessedDir(LastAsValDir).errors[k]
                  # "events.jsonl exceeds duration"

\* C24: build_events returns the same event sequence whatever the order in
\* which the segments and the chunks are given, ties on (t0, event_type)
\* included.
C24_OrderIndependent ==
    pc = "done" =>
        \A segs \in PermutationsOf(vad_segments),
           cks \in PermutationsOf(transcript_chunks) :
            BuildEvents(recording_id, run_id, start_time, segs, cks) = events

\* C29: the event_id values of the event log a call of process_recording
\* wrote are pairwise distinct.
C29_EventIdsDistinct ==
    LastCompleted =>
        \A i, j \in 1..Len(LastProcessed["events.jsonl"].lines) :
            i # j => LastProcessed["events.jsonl"].lines[i].event_id
                       # LastProcessed["events.jsonl"].lines[j].event_id

\* A written log with two speech_segment and two transcript_chunk events.
C29_Witness ==
    /\ LastCompleted
    /\ Len(SpeechLog(Len(runs))) = 2
    /\ Len(LastProcessed["events.jsonl"].lines) = 4

\* ---------------------------------------------------------------------
\* The batch GUI: FileQueue, BatchProcessor and the handlers of DaylogGUI.
\* Each step is one access to the shared state (the queue under its lock,
\* the fields of the processor); the threads interleave freely.

\* The files queue.add is called for in the runs explored.
MaxItems == 2

\* The progress updates one monitor thread makes in the runs explored.
MaxMonitorUpdates == 1

\* _process_item: the percentages of the monitor thread's stages.
Stages == <<10, 20, 30, 40, 50, 60, 70, 80, 85, 90>>

\* QueueItem as add() creates it.
QueueItem(id) == [id |-> id, status |-> "pending", progress |-> 0]

\* FileQueue.get_next_pending: the index of the first pending item, 0 for
\* None.  The item is not marked.
GetNextPending(items) ==
    IF \E i \in 1..Len(items) : items[i].status = "pending"
    THEN CHOOSE i \in 1..Len(items) :
            /\ items[i].status = "pending"
            /\ \A j \in 1..(i - 1) : items[j].status # "pending"
    ELSE 0

\* FileQueue.update_status: status and progress of the item with this id
\* are overwritten; an id no longer queued changes nothing.
UpdateStatus(items, item_id, status, prog) ==
    [i \in 1..Len(items) |->
        IF items[i].id = item_id
        THEN [items[i] EXCEPT !.status = status, !.progress = prog]
        ELSE items[i]]

\* FileQueue.clear_completed: completed and failed items are dropped.
ClearCompleted(items) ==
    SelectSeq(items, LAMBDA it : it.status \notin {"completed", "failed"})

\* BatchProcessor._update_progress: the item is set to "processing" with
\* the given progress and the callback is posted to the GUI.
UpdateProgress(item_id, prog) ==
    /\ queue_items' = UpdateStatus(queue_items, item_id, "processing", prog)
    /\ ui_posted' = TRUE

InitGui ==
    /\ pc = "gui"
    /\ IdleMerge
    /\ IdleCluster
    /\ IdleEvents
    /\ IdleValidate
    /\ IdlePipeline
    /\ IdleSplit
    /\ IdleVad
    /\ IdleGui

OtherThanGui ==
    UNCHANGED <<pc, varsMerge, varsCluster, varsEvents, varsValidate, varsPipeline,
                varsSplit, varsVad>>

\* _process_loop: `while self.running`.
LoopTest(t) ==
    /\ threads[t].pc = "loop"
    /\ threads' = [threads EXCEPT ![t].pc =
                      IF running THEN "check_paused" ELSE "loop_finally"]
    /\ UNCHANGED <<queue_items, add_count, running, paused, current_item_id, calls,
                   start_btn, pause_btn, ui_posted, picked, disturbed>>
    /\ OtherThanGui

\* _process_loop: `if self.paused: time.sleep(0.5); continue`.
CheckPaused(t) ==
    /\ threads[t].pc = "check_paused"
    /\ threads' = [threads EXCEPT ![t].pc = IF paused THEN "loop" ELSE "get"]
    /\ UNCHANGED <<queue_items, add_count, running, paused, current_item_id, calls,
                   start_btn, pause_btn, ui_posted, picked, disturbed>>
    /\ OtherThanGui

\* _process_loop: get_next_pending; None leaves the loop, an item enters
\* _process_item, which creates its done flag.
GetItem(t) ==
    /\ threads[t].pc = "get"
    /\ LET i == GetNextPending(queue_items) IN
        IF i = 0
        THEN /\ threads' = [threads EXCEPT ![t].pc = "loop_finally"]
             /\ UNCHANGED <<calls, picked>>
        ELSE /\ calls' = Append(calls, [item |-> queue_items[i].id, done |-> FALSE,
                                         mon |-> "unstarted", stage_idx |-> 0])
             /\ threads' = [threads EXCEPT ![t] = [pc |-> "prepare",
                                                    call |-> Len(calls) + 1]]
             /\ picked' = Append(picked, queue_items[i].id)
    /\ UNCHANGED <<queue_items, add_count, running, paused, current_item_id,
                   start_btn, pause_btn, disturbed, ui_posted>>
    /\ OtherThanGui

\* _process_item: _current_item_id and the "Preparing..." update.
Prepare(t) ==
    /\ threads[t].pc = "prepare"
    /\ current_item_id' = Some(calls[threads[t].call].item)
    /\ UpdateProgress(calls[threads[t].call].item, 2)
    /\ threads' = [threads EXCEPT ![t].pc = "convert"]
    /\ UNCHANGED <<add_count, running, paused, calls, start_btn, pause_btn, picked,
                   disturbed>>
    /\ OtherThanGui

\* _process_item: the "Converting audio..." update and the start of the
\* monitor thread.
Convert(t) ==
    /\ threads[t].pc = "convert"
    /\ UpdateProgress(calls[threads[t].call].item, 5)
    /\ calls' = [calls EXCEPT ![threads[t].call].mon = "sleep"]
    /\ threads' = [threads EXCEPT ![t].pc = "run"]
    /\ UNCHANGED <<add_count, running, paused, current_item_id, start_btn, pause_btn,
                   picked, disturbed>>
    /\ OtherThanGui

\* _process_item: run_pipeline returns; done is set and the monitor is
\* joined for at most 0.5 s.
RunPipelineOk(t) ==
    /\ threads[t].pc = "run"
    /\ calls' = [calls EXCEPT ![threads[t].call].done = TRUE]
    /\ threads' = [threads EXCEPT ![t].pc = "saving"]
    /\ UNCHANGED <<queue_items, add_count, running, paused, current_item_id,
                   start_btn, pause_btn, ui_posted, picked, disturbed>>
    /\ OtherThanGui

\* _process_item: run_pipeline raises; the except clause sets done.
RunPipelineFails(t) ==
    /\ threads[t].pc = "run"
    /\ calls' = [calls EXCEPT ![threads[t].call].done = TRUE]
    /\ threads' = [threads EXCEPT ![t].pc = "fail_status"]
    /\ UNCHANGED <<queue_items, add_count, running, paused, current_item_id,
                   start_btn, pause_btn, ui_posted, picked, disturbed>>
    /\ OtherThanGui

\* _process_item: the "Saving results..." and "Writing CSV and audio
\* files..." updates.
FinalUpdate(t) ==
    /\ threads[t].pc \in {"saving", "writing"}
    /\ UpdateProgress(calls[threads[t].call].item,
                      IF threads[t].pc = "saving" THEN 92 ELSE 96)
    /\ threads' = [threads EXCEPT ![t].pc =
                      IF threads[t].pc = "saving" THEN "writing" ELSE "complete"]
    /\ UNCHANGED <<add_count, running, paused, current_item_id, calls, start_btn,
                   pause_btn, picked, disturbed>>
    /\ OtherThanGui

\* _process_item: the item is marked completed.
MarkCompleted(t) ==
    /\ threads[t].pc = "complete"
    /\ queue_items' = UpdateStatus(queue_items, calls[threads[t].call].item,
                                   "completed", 100)
    /\ ui_posted' = TRUE
    /\ threads' = [threads EXCEPT ![t].pc = "item_finally"]
    /\ UNCHANGED <<add_count, running, paused, current_item_id, calls, start_btn,
                   pause_btn, picked, disturbed>>
    /\ OtherThanGui

\* _process_item: the except clause marks the item failed and re-raises.
MarkFailed(t) ==
    /\ threads[t].pc = "fail_status"
    /\ queue_items' = UpdateStatus(queue_items, calls[threads[t].call].item,
                                   "failed", 0)
    /\ ui_posted' = TRUE
    /\ threads' = [threads EXCEPT ![t].pc = "item_finally_raise"]
    /\ UNCHANGED <<add_count, running, paused, current_item_id, calls, start_btn,
                   pause_btn, picked, disturbed>>
    /\ OtherThanGui

\* _process_item: the finally clause.
ItemFinally(t) ==
    /\ threads[t].pc \in {"item_finally", "item_finally_raise"}
    /\ calls' = [calls EXCEPT ![threads[t].call].done = TRUE]
    /\ current_item_id' = None
    /\ threads' = [threads EXCEPT ![t].pc =
                      IF threads[t].pc = "item_finally" THEN "loop" ELSE "loop_fail"]
    /\ UNCHANGED <<queue_items, add_count, running, paused, start_btn, pause_btn,
                   ui_posted, picked, disturbed>>
    /\ OtherThanGui

\* _process_loop: the except clause marks the item failed once more.
LoopFail(t) ==
    /\ threads[t].pc = "loop_fail"
    /\ queue_items' = UpdateStatus(queue_items, calls[threads[t].call].item,
                                   "failed", 0)
    /\ ui_posted' = TRUE
    /\ threads' = [threads EXCEPT ![t].pc = "loop"]
    /\ UNCHANGED <<add_count, running, paused, current_item_id, calls, start_btn,
                   pause_btn, picked, disturbed>>
    /\ OtherThanGui

\* _process_loop: the finally clause; the thread ends.
LoopFinally(t) ==
    /\ threads[t].pc = "loop_finally"
    /\ running' = FALSE
    /\ current_item_id' = None
    /\ threads' = [threads EXCEPT ![t].pc = "exited"]
    /\ UNCHANGED <<queue_items, add_count, paused, calls, start_btn, pause_btn,
                   ui_posted, picked, disturbed>>
    /\ OtherThanGui

\* update_progress_loop: the sleep ends and done is tested, in the loop
\* condition and again in the `if`.
MonitorWake(c) ==
    /\ c <= Len(calls)
    /\ calls[c].mon = "sleep"
    /\ \/ /\ calls[c].done
          /\ calls' = [calls EXCEPT ![c].mon = "exit"]
       \/ /\ ~calls[c].done
          /\ calls[c].stage_idx < Len(Stages)
          /\ calls[c].stage_idx < MaxMonitorUpdates
          /\ calls' = [calls EXCEPT ![c].mon = "update"]
    /\ UNCHANGED <<queue_items, add_count, running, paused, current_item_id, threads,
                   start_btn, pause_btn, ui_posted, picked, disturbed>>
    /\ OtherThanGui

\* update_progress_loop: the _update_progress call that follows the test.
MonitorUpdate(c) ==
    /\ c <= Len(calls)
    /\ calls[c].mon = "update"
    /\ UpdateProgress(calls[c].item, Stages[calls[c].stage_idx + 1])
    /\ calls' = [calls EXCEPT ![c].mon = "sleep",
                              ![c].stage_idx = calls[c].stage_idx + 1]
    /\ UNCHANGED <<add_count, running, paused, current_item_id, threads, start_btn,
                   pause_btn, picked, disturbed>>
    /\ OtherThanGui

\* DaylogGUI.on_add_files for one file: queue.add.
AddFile ==
    /\ add_count < MaxItems
    /\ queue_items' = Append(queue_items, QueueItem(add_count + 1))
    /\ add_count' = add_count + 1
    /\ UNCHANGED <<running, paused, current_item_id, threads, calls, start_btn,
                   pause_btn, ui_posted, picked, disturbed>>
    /\ OtherThanGui

\* DaylogGUI.on_start with BatchProcessor.start: nothing without a pending
\* item; a running processor is left alone, otherwise a thread is created.
OnStart ==
    /\ start_btn
    /\ GetNextPending(queue_items) # 0
    /\ IF running
       THEN UNCHANGED <<running, paused, threads>>
       ELSE /\ \E t \in 1..MaxThreads : threads[t].pc = "unborn"
            /\ running' = TRUE
            /\ paused' = FALSE
            /\ LET t == CHOOSE u \in 1..MaxThreads :
                            /\ threads[u].pc = "unborn"
                            /\ \A v \in 1..(u - 1) : threads[v].pc # "unborn"
               IN threads' = [threads EXCEPT ![t].pc = "loop"]
    /\ start_btn' = FALSE
    /\ pause_btn' = TRUE
    /\ UNCHANGED <<queue_items, add_count, current_item_id, calls, ui_posted, picked,
                   disturbed>>
    /\ OtherThanGui

\* DaylogGUI.on_pause: resume() when paused, pause() otherwise.
OnPause ==
    /\ pause_btn
    /\ paused' = ~paused
    /\ disturbed' = TRUE
    /\ UNCHANGED <<queue_items, add_count, running, current_item_id, threads, calls,
                   start_btn, pause_btn, ui_posted, picked>>
    /\ OtherThanGui

\* DaylogGUI.on_clear: queue.clear_completed.
OnClear ==
    /\ ClearCompleted(queue_items) # queue_items
    /\ queue_items' = ClearCompleted(queue_items)
    /\ UNCHANGED <<add_count, running, paused, current_item_id, threads, calls,
                   start_btn, pause_btn, ui_posted, picked, disturbed>>
    /\ OtherThanGui

\* DaylogGUI.on_cancel: processor.stop, queue.clear_all and the buttons.
OnCancel ==
    /\ running' = FALSE
    /\ queue_items' = <<>>
    /\ start_btn' = TRUE
    /\ pause_btn' = FALSE
    /\ disturbed' = TRUE
    /\ UNCHANGED <<add_count, paused, current_item_id, threads, calls, ui_posted,
                   picked>>
    /\ OtherThanGui

\* DaylogGUI._update_progress, run by the Tk loop for a posted callback.
GuiUpdateProgress ==
    /\ ui_posted
    /\ ui_posted' = FALSE
    /\ start_btn' = IF running THEN start_btn ELSE TRUE
    /\ pause_btn' = IF running THEN pause_btn ELSE FALSE
    /\ UNCHANGED <<queue_items, add_count, running, paused, current_item_id, threads,
                   calls, picked, disturbed>>
    /\ OtherThanGui

WorkerStep(t) ==
    \/ LoopTest(t)
    \/ CheckPaused(t)
    \/ GetItem(t)
    \/ Prepare(t)
    \/ Convert(t)
    \/ RunPipelineOk(t)
    \/ RunPipelineFails(t)
    \/ FinalUpdate(t)
    \/ MarkCompleted(t)
    \/ MarkFailed(t)
    \/ ItemFinally(t)
    \/ LoopFail(t)
    \/ LoopFinally(t)

MonitorStep(c) ==
    \/ MonitorWake(c)
    \/ MonitorUpdate(c)

NextGui ==
    \/ \E t \in 1..MaxThreads : WorkerStep(t)
    \/ \E c \in 1..(MaxItems * MaxThreads) : MonitorStep(c)
    \/ AddFile
    \/ OnStart
    \/ OnPause
    \/ OnClear
    \/ OnCancel
    \/ GuiUpdateProgress

SpecGui == InitGui /\ [][NextGui]_vars

\* C26: while paused is set (from the return of pause() to the call of
\* resume()), no step of a worker hands a further queue item to
\* _process_item.
C26_NoPickWhilePaused == [][paused => picked' = picked]_vars

Terminal == {"completed", "failed"}

\* C27: an item whose status is completed or failed keeps its status and
\* its progress in every later step, of the worker and of the monitor
\* thread alike, for as long as it is queued.
C27_TerminalIsFinal ==
    [][\A i \in 1..Len(queue_items) :
          queue_items[i].status \in Terminal =>
              \A j \in 1..Len(queue_items') :
                  queue_items'[j].id = queue_items[i].id =>
                      /\ queue_items'[j].status = queue_items[i].status
                      /\ queue_items'[j].progress = queue_items[i].progress]_vars

\* The threads inside _process_loop.
InLoop == {t \in 1..MaxThreads : threads[t].pc \notin {"unborn", "exited"}}

\* C28: at most one thread executes _process_loop, at most one item is
\* "processing", and no item is handed to _process_item twice.
C28_AtMostOneWorker ==
    /\ Cardinality(InLoop) <= 1
    /\ Cardinality({i \in 1..Len(queue_items) :
                       queue_items[i].status = "processing"}) <= 1
    /\ \A i, j \in 1..Len(picked) : i # j => picked[i] # picked[j]

\* Every thread that was started has left _process_loop and every monitor
\* thread has made its last update.
Quiescent ==
    /\ \E t \in 1..MaxThreads : threads[t].pc = "exited"
    /\ InLoop = {}
    /\ \A c \in 1..Len(calls) : calls[c].mon # "update"

\* C30: when the processor was started and never paused or stopped, then
\* once the worker has left its loop and the monitors have finished, every
\* queued item the worker took is completed or failed, no item was taken
\* twice, running is False and there is no current item.
C30_AllItemsEndTerminal ==
    (~disturbed /\ Quiescent) =>
        /\ \A i \in 1..Len(queue_items) :
              (\E k \in 1..Len(picked) : picked[k] = queue_items[i].id)
                  => queue_items[i].status \in Terminal
        /\ \A i, j \in 1..Len(picked) : i # j => picked[i] # picked[j]
        /\ ~running
        /\ current_item_id = None

====
